---------------------------- MODULE Spec2Model ----------------------------
(***************************************************************************)
(* A model of the edn reader / value model / evaluator scope chain of the  *)
(* repository (include/edn.hpp, include/value.hpp, include/parse.hpp,      *)
(* include/evaluate.hpp, include/edn/evaluate.hpp).                        *)
(*                                                                         *)
(* The module holds three state machines over one set of variables:       *)
(*   SpecScope   stack_t (the scope chain) as the evaluator drives it     *)
(*   SpecValue   value_t equality / ordering and the containers keyed by  *)
(*               it (value.hpp)                                            *)
(*   SpecReader  tokenize / parse / format of edn.hpp and the parser of   *)
(*               parse.hpp                                                 *)
(* A specification leaves the variables of the other machines at their    *)
(* idle values.                                                            *)
(***************************************************************************)
EXTENDS Integers, Sequences, FiniteSets, TLC

VARIABLES
    stack,      \* the live stack_t objects, oldest first; the last is the current scope
    lastOp,     \* the last scope operation and what it returned
    cmp,        \* the last comparison of two values and its results
    vset,       \* a set_t under construction: its elements in iteration order
    offered,    \* the values passed to vset's insert so far, in order
    vmap,       \* a map_t under construction: k1, v1, k2, v2, ... in iteration order
    keys,       \* the keys passed to vmap's emplace so far, in order
    src,        \* the forms the text was written from, and the blanks around them
    input,      \* the text given to parse
    phase,      \* how far the reader has come with the text
    tokenized,  \* the tokens of the text
    parsed,     \* what parse made of the text
    formatted,  \* the text that format made of the parsed value
    reparsed,   \* what parse made of the formatted text
    frames,     \* the stack_t objects the evaluator has made, oldest first; the
                \* first is the host's stack, a destroyed one is kept as not live
    fns,        \* the callable_t objects made so far: the host's and the clojure_t
    given,      \* the value last given to evaluate
    outcome,    \* what that evaluate call gave, and what it did on the way
    evals       \* the number of evaluate calls made

scopeVars == <<stack, lastOp>>

valueVars == <<cmp, vset, offered, vmap, keys>>

readerVars == <<src, input, phase, tokenized, parsed, formatted, reparsed>>

evalVars == <<frames, fns, given, outcome, evals>>

vars == <<stack, lastOp, cmp, vset, offered, vmap, keys,
          src, input, phase, tokenized, parsed, formatted, reparsed,
          frames, fns, given, outcome, evals>>

\* no comparison made, nothing collected
ValueIdle ==
    /\ cmp = [op |-> "none"]
    /\ vset = <<>> /\ offered = <<>>
    /\ vmap = <<>> /\ keys = <<>>

\* no text read
ReaderIdle ==
    /\ src = [forms |-> <<>>, lead |-> <<>>, trail |-> <<>>]
    /\ input = <<>> /\ phase = "idle" /\ tokenized = <<>>
    /\ parsed = [ok |-> FALSE] /\ formatted = <<>> /\ reparsed = [ok |-> FALSE]

\* no scope beyond the root, no scope operation made
ScopeIdle ==
    /\ stack = <<>>
    /\ lastOp = [op |-> "none"]

\* nothing evaluated
EvalIdle ==
    /\ frames = <<>> /\ fns = <<>>
    /\ given = [type |-> "none"] /\ outcome = [ok |-> FALSE] /\ evals = 0

(***************************************************************************)
(*                          Scope chain: stack_t                           *)
(***************************************************************************)

\* bound: how many stack_t objects are alive at once (root + nested let / calls)
MaxDepth == 3

\* bound: how many bindings one let vector or one parameter list carries
MaxBind == 2

Symbols == {"x", "y"}

\* the value_t stored in a frame; the scope chain never looks inside it
StackValues == {1, 2}

EmptyFrame == [s \in {} |-> 0]

\* stack_t{frame_type{}, outer}: outer = 0 is the null pointer, otherwise the
\* position in `stack` of the object pointed to
stack_t(outer) == [frame |-> EmptyFrame, outer |-> outer]

\* std::map::emplace: constructs the element only if the key is not present
emplace(frame, symbol, v) ==
    IF symbol \in DOMAIN frame THEN frame ELSE frame @@ (symbol :> v)

\* a define that lands in the enclosing scope's frame as well
insert_into_outer(stk, i, symbol, v) ==
    LET o == stk[i].outer
        own == [stk EXCEPT ![i].frame = emplace(stk[i].frame, symbol, v)]
    IN [stack |-> IF o = 0 THEN own
                  ELSE [own EXCEPT ![o].frame = emplace(stk[o].frame, symbol, v)],
        ret   |-> v]

\* stack_t::insert(symbol, v): frame.emplace(symbol, v); return v;
\* gives the stack after the call and the returned value
insert(stk, i, symbol, v) ==
    [stack |-> [stk EXCEPT ![i].frame = emplace(stk[i].frame, symbol, v)],
     ret   |-> v]

NotFound(symbol) == [ok |-> FALSE, val |-> 0, what |-> "Unrecognized symbol", symbol |-> symbol]
Found(symbol, v) == [ok |-> TRUE, val |-> v, what |-> "", symbol |-> symbol]

RECURSIVE get_or_nil(_, _, _)
\* a lookup that yields a default value where no frame binds the symbol
get_or_nil(stk, i, symbol) ==
    IF symbol \in DOMAIN stk[i].frame
    THEN Found(symbol, stk[i].frame[symbol])
    ELSE IF stk[i].outer # 0
         THEN get_or_nil(stk, stk[i].outer, symbol)
         ELSE Found(symbol, 0)

RECURSIVE get(_, _, _)
\* stack_t::get(symbol): own frame, then outer->get(symbol), else throw
get(stk, i, symbol) ==
    IF symbol \in DOMAIN stk[i].frame
    THEN Found(symbol, stk[i].frame[symbol])
    ELSE IF stk[i].outer # 0
         THEN get(stk, stk[i].outer, symbol)
         ELSE NotFound(symbol)

Bindings == UNION {[1..n -> Symbols \X StackValues] : n \in 0..MaxBind}

RECURSIVE insert_all(_, _, _, _)
\* the loop of eval_let / clojure_t::operator(): one insert per binding, in order
insert_all(stk, i, bs, k) ==
    IF k > Len(bs) THEN stk
    ELSE insert_all(insert(stk, i, bs[k][1], bs[k][2]).stack, i, bs, k + 1)

Top == Len(stack)

NoOp == [op |-> "none", at |-> 0, symbol |-> "", val |-> 0, ret |-> 0,
         res |-> NotFound("")]

ScopeInit ==
    /\ stack = <<stack_t(0)>>
    /\ lastOp = NoOp
    /\ ValueIdle
    /\ ReaderIdle
    /\ EvalIdle

\* scope_define / eval_def / eval_defn: stack.insert(symbol, value) on the current scope
EvalDef ==
    \E symbol \in Symbols, v \in StackValues :
        LET r == insert(stack, Top, symbol, v) IN
        /\ stack' = r.stack
        /\ lastOp' = [NoOp EXCEPT !.op = "insert", !.at = Top, !.symbol = symbol,
                                  !.val = v, !.ret = r.ret]
        /\ UNCHANGED <<valueVars, readerVars, evalVars>>

\* eval_let: new_stack{frame_type{}, &stack}; one insert per binding pair; the
\* body then runs with new_stack as the current scope
EvalLet ==
    /\ Top < MaxDepth
    /\ \E bs \in Bindings :
        /\ stack' = insert_all(Append(stack, stack_t(Top)), Top + 1, bs, 1)
        /\ lastOp' = IF Len(bs) = 0
                     THEN [NoOp EXCEPT !.op = "let", !.at = Top + 1]
                     ELSE [NoOp EXCEPT !.op = "let", !.at = Top + 1,
                                       !.symbol = bs[Len(bs)][1],
                                       !.val = bs[Len(bs)][2],
                                       !.ret = bs[Len(bs)][2]]
        /\ UNCHANGED <<valueVars, readerVars, evalVars>>

\* clojure_t::operator(): new_stack{&stack} on the captured scope (a live one
\* here), the parameters inserted in order; the body then runs in new_stack
Invoke ==
    /\ Top < MaxDepth
    /\ \E captured \in 1..Top, bs \in Bindings :
        /\ stack' = insert_all(Append(stack, stack_t(captured)), Top + 1, bs, 1)
        /\ lastOp' = IF Len(bs) = 0
                     THEN [NoOp EXCEPT !.op = "invoke", !.at = Top + 1]
                     ELSE [NoOp EXCEPT !.op = "invoke", !.at = Top + 1,
                                       !.symbol = bs[Len(bs)][1],
                                       !.val = bs[Len(bs)][2],
                                       !.ret = bs[Len(bs)][2]]
        /\ UNCHANGED <<valueVars, readerVars, evalVars>>

\* eval_let / clojure_t::operator() return: new_stack goes out of scope
Return ==
    /\ Top > 1
    /\ stack' = SubSeq(stack, 1, Top - 1)
    /\ lastOp' = [NoOp EXCEPT !.op = "return", !.at = Top - 1]
    /\ UNCHANGED <<valueVars, readerVars, evalVars>>

\* scope_lookup / do_eval of a symbol: stack[symbol]
Lookup ==
    \E i \in 1..Top, symbol \in Symbols :
        /\ lastOp' = [NoOp EXCEPT !.op = "get", !.at = i, !.symbol = symbol,
                                  !.res = get(stack, i, symbol)]
        /\ UNCHANGED <<stack, valueVars, readerVars, evalVars>>

ScopeNext == EvalDef \/ EvalLet \/ Invoke \/ Return \/ Lookup

SpecScope == ScopeInit /\ [][ScopeNext]_vars

(***************************************************************************)
(*                     Characters and strings (char, std::string)          *)
(***************************************************************************)

\* the characters the model's texts are made of, with their ASCII codes
CharCode ==
    ("\t" :> 9) @@ ("\n" :> 10) @@ (" " :> 32) @@ ("\"" :> 34) @@ ("#" :> 35) @@
    ("&" :> 38) @@ ("'" :> 39) @@ ("(" :> 40) @@ (")" :> 41) @@ ("+" :> 43) @@
    ("," :> 44) @@ ("-" :> 45) @@ ("." :> 46) @@ ("0" :> 48) @@
    ("1" :> 49) @@ ("2" :> 50) @@ ("3" :> 51) @@ ("4" :> 52) @@
    ("5" :> 53) @@ ("6" :> 54) @@ ("7" :> 55) @@ ("8" :> 56) @@
    ("9" :> 57) @@ (":" :> 58) @@ (";" :> 59) @@ ("<" :> 60) @@
    (">" :> 62) @@ ("[" :> 91) @@
    ("\\" :> 92) @@ ("]" :> 93) @@ ("a" :> 97) @@ ("b" :> 98) @@
    ("c" :> 99) @@ ("d" :> 100) @@ ("e" :> 101) @@ ("f" :> 102) @@
    ("g" :> 103) @@ ("h" :> 104) @@ ("i" :> 105) @@ ("j" :> 106) @@
    ("k" :> 107) @@ ("l" :> 108) @@ ("m" :> 109) @@ ("n" :> 110) @@
    ("o" :> 111) @@ ("p" :> 112) @@ ("q" :> 113) @@ ("r" :> 114) @@
    ("s" :> 115) @@ ("t" :> 116) @@ ("u" :> 117) @@ ("v" :> 118) @@
    ("w" :> 119) @@ ("x" :> 120) @@ ("y" :> 121) @@ ("z" :> 122) @@
    ("{" :> 123) @@ ("}" :> 125)

Chars == DOMAIN CharCode

Min(a, b) == IF a < b THEN a ELSE b

\* std::string operator< / operator==: lexicographic on the character codes
string_lt(a, b) ==
    LET diff == {i \in 1..Min(Len(a), Len(b)) : a[i] # b[i]} IN
    IF diff = {} THEN Len(a) < Len(b)
    ELSE LET i == CHOOSE k \in diff : \A j \in diff : k <= j
         IN CharCode[a[i]] < CharCode[b[i]]

\* a C++ string literal, as the sequence of its characters
Str1(c) == <<c>>

(***************************************************************************)
(*                       value_t (value.hpp, edn.hpp)                      *)
(*                                                                         *)
(* A value is a record [type, n, u, s, xs]:                                *)
(*   n   the integer, the boolean (0/1), the callable's identity, or the   *)
(*       floating point number in thousandths                              *)
(*   u   for a floating point number, its offset from n/1000 in units of   *)
(*       half the machine epsilon (numeric_limits<double>::epsilon())      *)
(*   s   the characters of a string, symbol, keyword, character or tag     *)
(*   xs  the elements of a vector / list / set, the k1 v1 k2 v2 ... of a   *)
(*       map, or the one payload of a tagged or quoted element             *)
(***************************************************************************)

Val(type, n, u, s, xs) == [type |-> type, n |-> n, u |-> u, s |-> s, xs |-> xs]

nil_t == Val("nil", 0, 0, <<>>, <<>>)
boolean_t(b) == Val("boolean", IF b THEN 1 ELSE 0, 0, <<>>, <<>>)
integer_t(n) == Val("integer", n, 0, <<>>, <<>>)
floating_point_t(n, u) == Val("floating_point", n, u, <<>>, <<>>)
character_t(c) == Val("character", 0, 0, <<c>>, <<>>)
string_t(s) == Val("string", 0, 0, s, <<>>)
symbol_t(s) == Val("symbol", 0, 0, s, <<>>)
keyword_t(s) == Val("keyword", 0, 0, s, <<>>)
vector_t(xs) == Val("vector", 0, 0, <<>>, xs)
list_t(xs) == Val("list", 0, 0, <<>>, xs)
callable_t(id) == Val("callable", id, 0, <<>>, <<>>)
\* value.hpp: tagged_element_t{symbol, element}, quoted_element_t{element}
tagged_element_t(tag, element) == Val("tagged_element", 0, 0, tag, <<element>>)
quoted_element_t(element) == Val("quoted_element", 0, 0, <<>>, <<element>>)

\* numeric_limits<floating_point_t>::epsilon(), in the units of field u
FloatEpsilon == 2

\* the double a floating point value holds, in the units of field u (one
\* thousandth is many epsilons: 1000 units here)
float_units(v) == v.n * 1000 + v.u

Abs(x) == IF x < 0 THEN 0 - x ELSE x

\* std::abs(lt - rt) < std::numeric_limits<floating_point_t>::epsilon()
float_eq(a, b) == Abs(float_units(a) - float_units(b)) < FloatEpsilon

float_lt(a, b) == float_units(a) < float_units(b)

\* the alternatives of data_type that are held in a box_t (value.hpp:368-371)
Boxed == {"vector", "list", "set", "map"}

RECURSIVE eq_visitor(_, _)
\* value.hpp operator==: std::visit(eq_visitor{}, lhs.m_data, rhs.m_data).
\* Two alternatives of different type, two box_t<...> and two callable_t fall
\* to the template operator()(const L&, const R&), which returns false.
eq_visitor(a, b) ==
    IF a.type # b.type THEN FALSE
    ELSE CASE a.type = "nil" -> TRUE
           [] a.type \in {"boolean", "integer"} -> a.n = b.n
           [] a.type = "floating_point" -> float_eq(a, b)
           [] a.type \in {"character", "string", "symbol", "keyword"} -> a.s = b.s
           [] a.type \in {"tagged_element", "quoted_element"} ->
                  eq_visitor(a.xs[1], b.xs[1])
           [] a.type \in Boxed -> FALSE
           [] OTHER -> FALSE

RECURSIVE lt_visitor(_, _)
\* value.hpp operator<: std::visit(lt_visitor{}, lhs.m_data, rhs.m_data), with
\* the same template fallback returning false
lt_visitor(a, b) ==
    IF a.type # b.type THEN FALSE
    ELSE CASE a.type = "nil" -> FALSE
           [] a.type \in {"boolean", "integer"} -> a.n < b.n
           [] a.type = "floating_point" -> float_lt(a, b)
           [] a.type \in {"character", "string", "symbol", "keyword"} ->
                  string_lt(a.s, b.s)
           [] a.type \in {"tagged_element", "quoted_element"} ->
                  lt_visitor(a.xs[1], b.xs[1])
           [] a.type \in Boxed -> FALSE
           [] OTHER -> FALSE

\* edn.hpp enum class type_t, in declaration order
type_t ==
    <<"nil", "boolean", "integer", "floating_point", "string", "character",
      "symbol", "keyword", "tagged_element", "list", "vector", "set", "map",
      "callable">>

\* the m_type of a value_t that was never constructed (bytes read past the
\* end of a vector): no enumerator of type_t, here a number above them all
invalid_t == Val("invalid", 0, 0, <<>>, <<>>)

TypeIndex(t) ==
    IF \E i \in 1..Len(type_t) : type_t[i] = t
    THEN CHOOSE i \in 1..Len(type_t) : type_t[i] = t
    ELSE Len(type_t) + 1

\* edn.hpp: tagged_element_t is a string alone
edn_tagged_element_t(tag) == Val("tagged_element", 0, 0, tag, <<>>)

RECURSIVE operator_eq(_, _)
\* edn.hpp friend bool operator==(const value_t&, const value_t&)
operator_eq(a, b) ==
    IF a.type # b.type THEN FALSE
    ELSE CASE a.type = "nil" -> TRUE
           [] a.type \in {"boolean", "integer"} -> a.n = b.n
           [] a.type = "floating_point" -> float_eq(a, b)
           [] a.type \in {"string", "character", "symbol", "keyword",
                          "tagged_element"} -> a.s = b.s
           [] a.type \in {"list", "vector", "set", "map"} ->
                  /\ Len(a.xs) = Len(b.xs)
                  /\ \A i \in 1..Len(a.xs) : operator_eq(a.xs[i], b.xs[i])
           [] OTHER -> FALSE

RECURSIVE operator_lt(_, _)
\* edn.hpp friend bool operator<(const value_t&, const value_t&)
operator_lt(a, b) ==
    IF a.type # b.type THEN TypeIndex(a.type) < TypeIndex(b.type)
    ELSE CASE a.type = "nil" -> FALSE
           [] a.type \in {"boolean", "integer"} -> a.n < b.n
           [] a.type = "floating_point" -> float_lt(a, b)
           [] a.type \in {"string", "character", "symbol", "keyword",
                          "tagged_element"} -> string_lt(a.s, b.s)
           [] a.type \in {"list", "vector", "set", "map"} ->
                  LET diff == {i \in 1..Min(Len(a.xs), Len(b.xs)) :
                                   \/ operator_lt(a.xs[i], b.xs[i])
                                   \/ operator_lt(b.xs[i], a.xs[i])}
                  IN IF diff = {} THEN Len(a.xs) < Len(b.xs)
                     ELSE LET i == CHOOSE k \in diff : \A j \in diff : k <= j
                          IN operator_lt(a.xs[i], b.xs[i])
           [] a.type = "callable" -> FALSE
           [] OTHER -> TRUE

\* std::less<value_t>: operator< of the header the collection is compiled with
less(impl, a, b) == IF impl = "value.hpp" THEN lt_visitor(a, b) ELSE operator_lt(a, b)

\* std::set<value_t>::insert / std::map::emplace position: the first element
\* not less than x (lower_bound); xs holds one entry per `stride` slots
lower_bound(impl, xs, stride, x) ==
    LET n == Len(xs) \div stride
        ge == {i \in 1..n : ~less(impl, xs[(i - 1) * stride + 1], x)}
    IN IF ge = {} THEN n + 1 ELSE CHOOSE i \in ge : \A j \in ge : i <= j

InsertAt(xs, pos, ys) == SubSeq(xs, 1, pos - 1) \o ys \o SubSeq(xs, pos, Len(xs))

\* std::set<value_t>::insert(x): no insertion when an element equivalent to x
\* under the comparison (neither less than the other) is present
set_insert(impl, xs, x) ==
    LET i == lower_bound(impl, xs, 1, x) IN
    IF i <= Len(xs) /\ ~less(impl, x, xs[i]) THEN xs ELSE InsertAt(xs, i, <<x>>)

\* std::map<value_t, value_t>::emplace(k, v): no insertion and no overwrite
\* when a key equivalent to k is present
map_emplace(impl, xs, k, v) ==
    LET i == lower_bound(impl, xs, 2, k) IN
    IF 2 * i <= Len(xs) /\ ~less(impl, k, xs[2 * i - 1]) THEN xs
    ELSE InsertAt(xs, 2 * i - 1, <<k, v>>)

RECURSIVE set_of(_, _, _)
\* value.hpp set_t / edn.hpp set_t built from the elements xs[1..k], in order
set_of(impl, xs, k) ==
    IF k = 0 THEN <<>>
    ELSE set_insert(impl, set_of(impl, xs, k - 1), xs[k])

RECURSIVE map_of(_, _, _)
\* map_t built from the pairs (xs[1], xs[2]), (xs[3], xs[4]), ... up to the k-th pair
map_of(impl, xs, k) ==
    IF k = 0 THEN <<>>
    ELSE map_emplace(impl, map_of(impl, xs, k - 1), xs[2 * k - 1], xs[2 * k])

set_t(impl, xs) == Val("set", 0, 0, <<>>, set_of(impl, xs, Len(xs)))
map_t(impl, xs) == Val("map", 0, 0, <<>>, map_of(impl, xs, Len(xs) \div 2))

(***************************************************************************)
(*            The values compared and collected in SpecValue               *)
(***************************************************************************)

\* the most elements a collection of the compared values holds
MaxItems == 2

\* the most values offered to one set or one map
MaxOffered == 3

Tags == {Str1("a"), Str1("b")}

ElementValues == {integer_t(1), integer_t(2), keyword_t(Str1("a"))}

AtomValues ==
    ElementValues \cup
    {nil_t, boolean_t(FALSE), boolean_t(TRUE),
     floating_point_t(1000, 0), floating_point_t(1000, 1), floating_point_t(2500, 0),
     character_t("a"), string_t(Str1("a")), string_t(<<"a", "b">>),
     symbol_t(Str1("a")), symbol_t(Str1("b")), keyword_t(Str1("b")),
     callable_t(1), callable_t(2)}

ElementSeqs == UNION {[1..n -> ElementValues] : n \in 0..MaxItems}

EvenElementSeqs == {xs \in ElementSeqs : Len(xs) % 2 = 0}

\* the values of value.hpp that are compared
ValueUniverse ==
    AtomValues
    \cup {vector_t(xs) : xs \in ElementSeqs} \cup {list_t(xs) : xs \in ElementSeqs}
    \cup {set_t("value.hpp", xs) : xs \in ElementSeqs}
    \cup {map_t("value.hpp", xs) : xs \in EvenElementSeqs}
    \cup {tagged_element_t(t, e) : t \in Tags, e \in ElementValues}
    \cup {quoted_element_t(e) : e \in ElementValues}

\* the values of edn.hpp that are compared
EdnUniverse ==
    AtomValues
    \cup {vector_t(xs) : xs \in ElementSeqs} \cup {list_t(xs) : xs \in ElementSeqs}
    \cup {set_t("edn.hpp", xs) : xs \in ElementSeqs}
    \cup {map_t("edn.hpp", xs) : xs \in EvenElementSeqs}
    \cup {edn_tagged_element_t(t) : t \in Tags}

\* the values offered to a set and, as keys, to a map
OfferedValues ==
    {integer_t(1), integer_t(2), keyword_t(Str1("a")), string_t(Str1("a")),
     vector_t(<<integer_t(1)>>), vector_t(<<integer_t(2)>>)}

\* one object is exercised in a behaviour: either two values are compared, or
\* one set or one map is built
ValueInit ==
    /\ ValueIdle
    /\ ScopeIdle
    /\ ReaderIdle
    /\ EvalIdle

\* value.hpp: a == b, a < b and b < a on two values
Compare ==
    /\ cmp.op = "none"
    /\ \E a \in ValueUniverse, b \in ValueUniverse :
        /\ cmp' = [op |-> "compare", impl |-> "value.hpp", a |-> a, b |-> b,
                   eq |-> eq_visitor(a, b), lt |-> lt_visitor(a, b),
                   gt |-> lt_visitor(b, a)]
        /\ UNCHANGED <<vset, offered, vmap, keys, scopeVars, readerVars, evalVars>>

\* edn.hpp: a == b, a < b and b < a on two values
CompareEdn ==
    /\ cmp.op = "none"
    /\ \E a \in EdnUniverse, b \in EdnUniverse :
        /\ cmp' = [op |-> "compare", impl |-> "edn.hpp", a |-> a, b |-> b,
                   eq |-> operator_eq(a, b), lt |-> operator_lt(a, b),
                   gt |-> operator_lt(b, a)]
        /\ UNCHANGED <<vset, offered, vmap, keys, scopeVars, readerVars, evalVars>>

\* value.hpp set_t (std::set<value_t>): insert(x)
SetInsert ==
    /\ Len(offered) < MaxOffered
    /\ \E x \in OfferedValues :
        /\ vset' = set_insert("value.hpp", vset, x)
        /\ offered' = Append(offered, x)
    /\ cmp.op # "compare" /\ cmp' = [op |-> "insert"]
    /\ vmap = <<>>
    /\ UNCHANGED <<vmap, keys, scopeVars, readerVars, evalVars>>

\* value.hpp map_t (std::map<value_t, value_t>): emplace(k, v)
MapEmplace ==
    /\ Len(keys) < MaxOffered
    /\ \E k \in OfferedValues, v \in {integer_t(1), integer_t(2)} :
        /\ vmap' = map_emplace("value.hpp", vmap, k, v)
        /\ keys' = Append(keys, k)
    /\ cmp.op # "compare" /\ cmp' = [op |-> "emplace"]
    /\ vset = <<>>
    /\ UNCHANGED <<vset, offered, scopeVars, readerVars, evalVars>>

ValueNext == Compare \/ CompareEdn \/ SetInsert \/ MapEmplace

SpecValue == ValueInit /\ [][ValueNext]_vars

(***************************************************************************)
(*                  Reader of edn.hpp: detail::tokenize_fn                 *)
(*                                                                         *)
(* A text is the sequence of its characters; a token_t (std::string) is    *)
(* the sequence of its characters too.                                     *)
(***************************************************************************)

MinOf(S) == CHOOSE k \in S : \A j \in S : k <= j

\* text.slice(n, {}) / string_view(it, end): the text without its first n characters
Drop(text, n) == SubSeq(text, n + 1, Len(text))

is_parenthesis(ch) == ch \in {"(", ")", "[", "]", "{", "}"}

\* std::isspace in the "C" locale
isspace(ch) == CharCode[ch] \in (9..13) \cup {32}

is_space(ch) == isspace(ch) \/ ch = ","

isdigit(ch) == CharCode[ch] \in 48..57

\* std::isprint in the "C" locale
isprint(ch) == CharCode[ch] \in 32..126

RECURSIVE read_quoted_string_from(_, _, _)
\* the loop of read_quoted_string: `it` is the position read next, `result`
\* the token so far
read_quoted_string_from(text, it, result) ==
    IF it > Len(text) THEN [some |-> TRUE, token |-> result, rest |-> <<>>]
    ELSE IF text[it] = "\\" /\ Len(text) - it + 1 > 1 /\ text[it + 1] = "\""
         THEN read_quoted_string_from(text, it + 2, Append(result, "\""))
    ELSE IF text[it] = "\""
         THEN [some |-> TRUE, token |-> Append(result, "\""), rest |-> Drop(text, it)]
    ELSE read_quoted_string_from(text, it + 1, Append(result, text[it]))

read_quoted_string(text) == read_quoted_string_from(text, 2, <<"\"">>)

RECURSIVE read_token(_)
\* tokenize_fn::read_token: some = FALSE is the empty optional
read_token(text) ==
    IF text = <<>> THEN [some |-> FALSE, token |-> <<>>, rest |-> <<>>]
    ELSE IF text[1] = ";"
         THEN LET nl == {i \in 1..Len(text) : text[i] = "\n"}
              IN read_token(IF nl = {} THEN <<>> ELSE Drop(text, MinOf(nl) - 1))
    ELSE IF text[1] = "#" \/ text[1] = "'" \/ is_parenthesis(text[1])
         THEN [some |-> TRUE, token |-> <<text[1]>>, rest |-> Drop(text, 1)]
    ELSE IF text[1] = "\"" THEN read_quoted_string(text)
    ELSE LET hits == {i \in 1..Len(text) : is_space(text[i]) \/ is_parenthesis(text[i])}
         IN IF hits = {} THEN [some |-> TRUE, token |-> text, rest |-> <<>>]
            ELSE LET iter == MinOf(hits)
                 IN [some |-> TRUE, token |-> SubSeq(text, 1, iter - 1),
                     rest |-> IF is_space(text[iter]) THEN Drop(text, iter)
                              ELSE Drop(text, iter - 1)]

RECURSIVE tokenize_from(_, _)
\* the loop of tokenize_fn::operator(): empty tokens are not kept
tokenize_from(text, result) ==
    LET res == read_token(text) IN
    IF ~res.some THEN result
    ELSE tokenize_from(res.rest,
                       IF res.token # <<>> THEN Append(result, res.token) ELSE result)

tokenize(text) == tokenize_from(text, <<>>)

(***************************************************************************)
(*              Reader of edn.hpp: detail::parse_fn, the atoms             *)
(***************************************************************************)

None == [some |-> FALSE, val |-> nil_t]

Some(v) == [some |-> TRUE, val |-> v]

\* the longest prefix of digits of txt from position i on
RECURSIVE DigitRun(_, _)
DigitRun(txt, i) ==
    IF i <= Len(txt) /\ isdigit(txt[i]) THEN <<txt[i]>> \o DigitRun(txt, i + 1) ELSE <<>>

RECURSIVE StripZeros(_)
StripZeros(ds) == IF Len(ds) > 1 /\ ds[1] = "0" THEN StripZeros(Tail(ds)) ELSE ds

RECURSIVE DigitsValue(_)
DigitsValue(ds) ==
    IF ds = <<>> THEN 0
    ELSE 10 * DigitsValue(SubSeq(ds, 1, Len(ds) - 1)) + (CharCode[ds[Len(ds)]] - 48)

\* numeric_limits<std::int32_t>::max(), as digits; the minimum is one more, negated
Int32MaxDigits == <<"2", "1", "4", "7", "4", "8", "3", "6", "4", "7">>

Int32MinDigits == <<"2", "1", "4", "7", "4", "8", "3", "6", "4", "8">>

\* does the number with these digits (no leading zeros) fit integer_t
FitsInt32(ds, negative) ==
    LET limit == IF negative THEN Int32MinDigits ELSE Int32MaxDigits IN
    \/ Len(ds) < Len(limit)
    \/ Len(ds) = Len(limit) /\ ~string_lt(limit, ds)

HasSign(txt) == txt # <<>> /\ txt[1] \in {"+", "-"}

\* try_parse<integer_t>: ss >> int reads an optional sign and the digits
\* that follow, leaves the rest of the token unread, and fails when there is
\* no digit or the number does not fit
try_parse_integer(txt) ==
    LET start == IF HasSign(txt) THEN 2 ELSE 1
        ds == DigitRun(txt, start)
        negative == HasSign(txt) /\ txt[1] = "-"
    IN IF ds = <<>> \/ ~FitsInt32(StripZeros(ds), negative) THEN None
       ELSE IF negative /\ StripZeros(ds) = Int32MinDigits
            THEN Some(integer_t(0 - 2147483647 - 1))
       ELSE Some(integer_t((IF negative THEN -1 ELSE 1) * DigitsValue(StripZeros(ds))))

\* the first three digits after the point, as thousandths
Thousandths(fs) ==
    LET d(i) == IF i <= Len(fs) THEN CharCode[fs[i]] - 48 ELSE 0
    IN 100 * d(1) + 10 * d(2) + d(3)

\* the largest floating point number the model holds, in thousandths: a
\* number of a million or more is held as a million
FloatMax == 1000000000

\* try_parse<floating_point_t>: ss >> double reads an optional sign, digits,
\* an optional point and more digits (the texts of the model hold no
\* exponent), and fails when there is no digit at all
try_parse_floating_point(txt) ==
    LET start == IF HasSign(txt) THEN 2 ELSE 1
        is == DigitRun(txt, start)
        dot == start + Len(is)
        hasDot == dot <= Len(txt) /\ txt[dot] = "."
        fs == IF hasDot THEN DigitRun(txt, dot + 1) ELSE <<>>
        sign == IF HasSign(txt) /\ txt[1] = "-" THEN -1 ELSE 1
    IN IF is = <<>> /\ fs = <<>> THEN None
       ELSE IF Len(StripZeros(is)) > 6 THEN Some(floating_point_t(sign * FloatMax, 0))
       ELSE Some(floating_point_t(
                sign * (1000 * DigitsValue(StripZeros(is)) + Thousandths(fs)), 0))

as_string(tok) ==
    IF tok[1] = "\"" /\ tok[Len(tok)] = "\""
    THEN Some(string_t(IF Len(tok) < 2 THEN <<>> ELSE SubSeq(tok, 2, Len(tok) - 1)))
    ELSE None

as_integer(tok) ==
    IF \A i \in 1..Len(tok) : tok[i] # "." THEN try_parse_integer(tok) ELSE None

as_floating_point(tok) == try_parse_floating_point(tok)

as_boolean(tok) ==
    IF tok = <<"t", "r", "u", "e">> THEN Some(boolean_t(TRUE))
    ELSE IF tok = <<"f", "a", "l", "s", "e">> THEN Some(boolean_t(FALSE))
    ELSE None

as_nil(tok) == IF tok = <<"n", "i", "l">> THEN Some(nil_t) ELSE None

as_symbol(tok) == Some(symbol_t(tok))

\* value_t::character_names
character_names ==
    << <<" ", <<"s", "p", "a", "c", "e">> >>,
       <<"\n", <<"n", "e", "w", "l", "i", "n", "e">> >>,
       <<"\t", <<"t", "a", "b">> >> >>

as_character(tok) ==
    IF tok = <<>> \/ tok[1] # "\\" THEN None
    ELSE LET named == {i \in 1..Len(character_names) : Drop(tok, 1) = character_names[i][2]}
         IN IF named # {} THEN Some(character_t(character_names[MinOf(named)][1]))
            ELSE IF Len(tok) = 2 /\ isprint(tok[2]) THEN Some(character_t(tok[2]))
            ELSE None

as_keyword(tok) == IF tok[1] = ":" THEN Some(keyword_t(Drop(tok, 1))) ELSE None

\* parse_fn::read_atom: the first reading of the token that succeeds
read_atom(tok) ==
    IF as_boolean(tok).some THEN as_boolean(tok).val
    ELSE IF as_nil(tok).some THEN as_nil(tok).val
    ELSE IF as_string(tok).some THEN as_string(tok).val
    ELSE IF as_keyword(tok).some THEN as_keyword(tok).val
    ELSE IF as_integer(tok).some THEN as_integer(tok).val
    ELSE IF as_floating_point(tok).some THEN as_floating_point(tok).val
    ELSE IF as_character(tok).some THEN as_character(tok).val
    ELSE as_symbol(tok).val

(***************************************************************************)
(*           Reader of edn.hpp: detail::parse_fn, the collections          *)
(*                                                                         *)
(* A reading is [ok, val, rest, what, oob]: ok = FALSE is an exception     *)
(* with message `what` (or the end of the process); rest is the tokens     *)
(* left; oob tells that an element past the end of a vector was read.      *)
(***************************************************************************)

Ok(v, rest, oob) == [ok |-> TRUE, val |-> v, rest |-> rest, what |-> "", oob |-> oob]

\* throw exception<>(what)
Throw(what) == [ok |-> FALSE, val |-> nil_t, rest |-> <<>>, what |-> what, oob |-> FALSE]

\* the process is ended by the read past the end of the vector
Crash == [ok |-> FALSE, val |-> nil_t, rest |-> <<>>, what |-> "SIGSEGV", oob |-> TRUE]

\* what a read of items[items.size()] gives: the end of the process, or the
\* value that the bytes after the last element happen to make
UBOutcomes ==
    {[crash |-> TRUE, val |-> nil_t]}
    \cup {[crash |-> FALSE, val |-> v] : v \in {nil_t, invalid_t}}

RECURSIVE to_map_from(_, _, _, _)
\* the loop of parse_fn::to_map, i the (1-based) position of the next key
to_map_from(items, i, result, ub) ==
    IF i > Len(items) THEN Ok(Val("map", 0, 0, <<>>, result), <<>>, FALSE)
    ELSE IF i + 1 > Len(items)
         THEN IF ub.crash THEN Crash
              ELSE Ok(Val("map", 0, 0, <<>>, map_emplace("edn.hpp", result, items[i], ub.val)),
                      <<>>, TRUE)
    ELSE to_map_from(items, i + 2, map_emplace("edn.hpp", result, items[i], items[i + 1]), ub)

to_map(items, ub) == to_map_from(items, 1, <<>>, ub)

RECURSIVE read_from(_, _, _)
RECURSIVE read_until_from(_, _, _, _, _)

\* read_until, after one item was read: r is the reading of that item
read_until_next(r, delimiter, result, oob, ub) ==
    IF ~r.ok THEN r
    ELSE read_until_from(r.rest, delimiter, Append(result, r.val), oob \/ r.oob, ub)

\* the loop and the final pop_front of parse_fn::read_until; val is the
\* std::vector<value_t> of the items read
read_until_from(tokens, delimiter, result, oob, ub) ==
    IF tokens # <<>> /\ tokens[1] # delimiter
    THEN read_until_next(read_from(tokens, FALSE, ub), delimiter, result, oob, ub)
    ELSE IF tokens = <<>> THEN Throw("Cannot pop from empty vector")
    ELSE Ok(result, Tail(tokens), oob)

read_until(tokens, delimiter, ub) ==
    IF tokens = <<>> THEN Throw("invalid parentheses")
    ELSE read_until_from(tokens, delimiter, <<>>, FALSE, ub)

\* read_from, front == "'": arg is the reading of what follows
read_quote(arg) ==
    IF ~arg.ok THEN arg
    ELSE Ok(list_t(<<symbol_t(<<"q", "u", "o", "t", "e">>), arg.val>>), arg.rest, arg.oob)

\* read_from, front == "(": items is the reading up to ")"
read_list(items) ==
    IF ~items.ok THEN items ELSE Ok(list_t(items.val), items.rest, items.oob)

\* read_from, front == "[": items is the reading up to "]"
read_vector(items) ==
    IF ~items.ok THEN items ELSE Ok(vector_t(items.val), items.rest, items.oob)

\* read_from, front == "#": r is the reading of what follows, read as tagged
read_hash(r) ==
    IF ~r.ok THEN r
    ELSE IF r.val.type = "vector" THEN Ok(set_t("edn.hpp", r.val.xs), r.rest, r.oob)
    ELSE IF r.val.type = "symbol" THEN Ok(edn_tagged_element_t(r.val.s), r.rest, r.oob)
    ELSE Throw("# must be followed by {...} (for set) or by symbol (for tagged element)")

\* read_from, front == "{", not tagged: m is what to_map made of the items
read_map(m, items) ==
    IF ~m.ok THEN m ELSE Ok(m.val, items.rest, items.oob \/ m.oob)

\* read_from, front == "{": items is the reading up to "}"
read_braces(items, tagged, ub) ==
    IF ~items.ok THEN items
    ELSE IF ~tagged THEN read_map(to_map(items.val, ub), items)
    ELSE Ok(vector_t(items.val), items.rest, items.oob)

\* parse_fn::read_from(tokens, tagged)
read_from(tokens, tagged, ub) ==
    IF tokens = <<>> THEN Ok(nil_t, <<>>, FALSE)
    ELSE CASE tokens[1] = <<"'">> -> read_quote(read_from(Tail(tokens), FALSE, ub))
           [] tokens[1] = <<"(">> -> read_list(read_until(Tail(tokens), <<")">>, ub))
           [] tokens[1] = <<"[">> -> read_vector(read_until(Tail(tokens), <<"]">>, ub))
           [] tokens[1] = <<"#">> -> read_hash(read_from(Tail(tokens), TRUE, ub))
           [] tokens[1] = <<"{">> ->
                  read_braces(read_until(Tail(tokens), <<"}">>, ub), tagged, ub)
           [] OTHER -> Ok(read_atom(tokens[1]), Tail(tokens), FALSE)

RECURSIVE read_values(_, _, _, _)

\* the loop of parse_fn::operator(), after one read_from: r is its reading
read_values_next(r, values, oob, ub) ==
    IF ~r.ok THEN r
    ELSE read_values(r.rest, Append(values, r.val), oob \/ r.oob, ub)

\* the loop of parse_fn::operator(): one read_from per top-level form; val
\* is the std::vector<value_t> values
read_values(tokens, values, oob, ub) ==
    IF tokens = <<>> THEN Ok(values, <<>>, oob)
    ELSE read_values_next(read_from(tokens, FALSE, ub), values, oob, ub)

do_symbol == symbol_t(<<"d", "o">>)

\* the end of parse_fn::operator(): the one value alone, otherwise the list
\* (do values...)
wrap(values) ==
    IF Len(values) = 1 THEN values[1] ELSE list_t(<<do_symbol>> \o values)

\* exception<> holds a message and nothing else: where in the text (1-based)
\* an error was found is not known to who catches it
NoLocation == 0

\* what parse_fn::operator() returns or throws, r being the reading of the
\* values; values is the std::vector<value_t> the result is made of
parse_result(r) ==
    IF ~r.ok THEN [ok |-> FALSE, val |-> nil_t, what |-> r.what, loc |-> NoLocation,
                   oob |-> r.oob, values |-> <<>>]
    ELSE [ok |-> TRUE, val |-> wrap(r.val), what |-> "", loc |-> NoLocation,
          oob |-> r.oob, values |-> r.val]

\* parse_fn::operator() on the tokens of the text
parse_tokens(tokens, ub) == parse_result(read_values(tokens, <<>>, FALSE, ub))

\* edn::parse(text)
parse(text, ub) == parse_tokens(tokenize(text), ub)

(***************************************************************************)
(*                  Printer of edn.hpp: value_t::format                    *)
(***************************************************************************)

DigitChar(d) == CHOOSE c \in Chars : CharCode[c] = 48 + d

RECURSIVE NatText(_)
NatText(n) ==
    IF n < 10 THEN <<DigitChar(n)>> ELSE NatText(n \div 10) \o <<DigitChar(n % 10)>>

RECURSIVE NegText(_)
\* the digits of a negative number (whose negation may not fit integer_t)
NegText(n) ==
    LET d == (10 - (n % 10)) % 10
    IN IF n > -10 THEN <<DigitChar(0 - n)>>
       ELSE NegText((n + d) \div 10) \o <<DigitChar(d)>>

\* os << m_integer
integer_text(n) == IF n < 0 THEN <<"-">> \o NegText(n) ELSE NatText(n)

\* the digits of f thousandths after the point, without trailing zeros
FractionText(f) ==
    IF f % 100 = 0 THEN <<DigitChar(f \div 100)>>
    ELSE IF f % 10 = 0 THEN <<DigitChar(f \div 100), DigitChar((f \div 10) % 10)>>
    ELSE <<DigitChar(f \div 100), DigitChar((f \div 10) % 10), DigitChar(f % 10)>>

\* os << m_floating_point with the stream's defaults (%g, six significant
\* digits): no point and no digit after it when the number is whole; the
\* digits of a number below a thousand are all printed
floating_point_text(n) ==
    LET m == Abs(n)
        whole == NatText(m \div 1000)
    IN (IF n < 0 THEN <<"-">> ELSE <<>>)
       \o (IF m = FloatMax THEN <<"1", "e", "+", "0", "6">>
           ELSE IF m % 1000 = 0 THEN whole
           ELSE whole \o <<".">> \o FractionText(m % 1000))

\* fmt_char in value_t::format
character_text(ch) ==
    LET named == {i \in 1..Len(character_names) : character_names[i][1] = ch}
    IN <<"\\">> \o (IF named # {} THEN character_names[MinOf(named)][2] ELSE <<ch>>)

RECURSIVE format(_)
RECURSIVE format_range(_, _)

\* format_range: the elements from the k-th on, a space between two
format_range(xs, k) ==
    IF k > Len(xs) THEN <<>>
    ELSE (IF k > 1 THEN <<" ">> ELSE <<>>) \o format(xs[k]) \o format_range(xs, k + 1)

\* value_t::format(os, format_mode_t::repr)
format(v) ==
    CASE v.type = "nil" -> <<"n", "i", "l">>
      [] v.type = "boolean" ->
             IF v.n = 1 THEN <<"t", "r", "u", "e">> ELSE <<"f", "a", "l", "s", "e">>
      [] v.type = "integer" -> integer_text(v.n)
      [] v.type = "floating_point" -> floating_point_text(v.n)
      [] v.type = "string" -> <<"\"">> \o v.s \o <<"\"">>
      [] v.type = "character" -> character_text(v.s[1])
      [] v.type = "symbol" -> v.s
      [] v.type = "keyword" -> <<":">> \o v.s
      [] v.type = "tagged_element" -> <<"#">> \o v.s
      [] v.type = "list" -> <<"(">> \o format_range(v.xs, 1) \o <<")">>
      [] v.type = "vector" -> <<"[">> \o format_range(v.xs, 1) \o <<"]">>
      [] v.type = "set" -> <<"#", "{">> \o format_range(v.xs, 1) \o <<"}">>
      [] v.type = "map" -> <<"{">> \o format_range(v.xs, 1) \o <<"}">>
      [] v.type = "callable" ->
             <<"<", "<", " ", "c", "a", "l", "l", "a", "b", "l", "e", " ", ">", ">">>
      [] OTHER -> <<>>

(***************************************************************************)
(*                 The texts that are read in SpecReader                   *)
(*                                                                         *)
(* A text is written from a sequence of forms in the concrete syntax of    *)
(* the language.  A form is a record like a value; the xs of a map or a    *)
(* set form are the forms between its braces as written (any number of     *)
(* them, repeated ones too), a tagged form has its tag in s and its        *)
(* payload in xs, a quoted form its payload in xs.                         *)
(***************************************************************************)

\* the most top-level forms in a text
MaxForms == 2

map_form(items) == Val("map", 0, 0, <<>>, items)

set_form(items) == Val("set", 0, 0, <<>>, items)

RECURSIVE EscapeText(_)
\* the characters of a string literal: \" for a quote, \\ for a backslash
EscapeText(cs) ==
    IF cs = <<>> THEN <<>>
    ELSE (IF cs[1] \in {"\"", "\\"} THEN <<"\\", cs[1]>> ELSE <<cs[1]>>)
         \o EscapeText(Tail(cs))

RECURSIVE Render(_)
RECURSIVE RenderItems(_, _)

RenderItems(xs, k) ==
    IF k > Len(xs) THEN <<>>
    ELSE (IF k > 1 THEN <<" ">> ELSE <<>>) \o Render(xs[k]) \o RenderItems(xs, k + 1)

\* the text of a form
Render(f) ==
    CASE f.type = "nil" -> <<"n", "i", "l">>
      [] f.type = "boolean" ->
             IF f.n = 1 THEN <<"t", "r", "u", "e">> ELSE <<"f", "a", "l", "s", "e">>
      [] f.type = "integer" -> integer_text(f.n)
      [] f.type = "floating_point" ->
             (IF f.n < 0 THEN <<"-">> ELSE <<>>) \o NatText(Abs(f.n) \div 1000)
                 \o <<".">> \o FractionText(Abs(f.n) % 1000)
      [] f.type = "string" -> <<"\"">> \o EscapeText(f.s) \o <<"\"">>
      [] f.type = "character" -> character_text(f.s[1])
      [] f.type = "symbol" -> f.s
      [] f.type = "keyword" -> <<":">> \o f.s
      [] f.type = "tagged_element" ->
             <<"#">> \o f.s \o (IF f.n = 1 THEN <<>> ELSE <<" ">>) \o Render(f.xs[1])
      [] f.type = "quoted_element" -> <<"'">> \o Render(f.xs[1])
      [] f.type = "list" -> <<"(">> \o RenderItems(f.xs, 1) \o <<")">>
      [] f.type = "vector" -> <<"[">> \o RenderItems(f.xs, 1) \o <<"]">>
      [] f.type = "set" -> <<"#", "{">> \o RenderItems(f.xs, 1) \o <<"}">>
      [] f.type = "map" -> <<"{">> \o RenderItems(f.xs, 1) \o <<"}">>

\* where the items of a form start in its text (0-based): after what opens it
ItemsStart(f) ==
    CASE f.type = "set" -> 2
      [] f.type = "tagged_element" -> Len(f.s) + (IF f.n = 1 THEN 1 ELSE 2)
      [] OTHER -> 1

RECURSIVE ItemOffset(_, _)
\* where the k-th of the items xs starts, counted from the first item
ItemOffset(xs, k) ==
    IF k = 1 THEN 0 ELSE ItemOffset(xs, k - 1) + Len(Render(xs[k - 1])) + 1

RECURSIVE OddMapOffsets(_)
\* where in the text of a form (0-based) the `{` of a map with an odd number
\* of forms stands
OddMapOffsets(f) ==
    (IF f.type = "map" /\ Len(f.xs) % 2 = 1 THEN {0} ELSE {})
    \cup UNION {{ItemsStart(f) + ItemOffset(f.xs, k) + o : o \in OddMapOffsets(f.xs[k])} :
                   k \in 1..Len(f.xs)}

RECURSIVE DoCount(_)
\* how many times the symbol `do` occurs in a form or value
DoCount(f) ==
    IF f.type = "symbol" /\ f.s = <<"d", "o">> THEN 1
    ELSE IF f.xs = <<>> THEN 0
    ELSE LET rest == [f EXCEPT !.xs = Tail(f.xs)]
         IN DoCount(f.xs[1]) + DoCount(rest)

\* a tagged form whose payload follows the tag with nothing in between: #tag"..."
tagged_form_tight(tag, element) == Val("tagged_element", 1, 0, tag, <<element>>)

Keyword(c) == keyword_t(<<c>>)

Symbol(c) == symbol_t(<<c>>)

\* the forms the texts are written from
SourceForms ==
    {nil_t, boolean_t(TRUE), integer_t(1), floating_point_t(2000, 0), floating_point_t(2500, 0),
     character_t("a"), string_t(<<"a">>), string_t(<<"a", "\"", "b">>),
     string_t(<<"a", "\\", "b">>), Symbol("a"), Keyword("a"),
     list_t(<<>>), list_t(<<do_symbol, integer_t(1)>>), vector_t(<<integer_t(1), integer_t(2)>>),
     vector_t(<<vector_t(<<integer_t(1)>>), list_t(<<do_symbol, integer_t(2)>>)>>),
     set_form(<<integer_t(1), integer_t(2)>>), map_form(<<Keyword("a"), integer_t(1)>>),
     map_form(<<Keyword("a")>>), map_form(<<Keyword("a"), integer_t(1), Keyword("b")>>),
     vector_t(<<map_form(<<integer_t(1)>>)>>),
     tagged_element_t(<<"a">>, integer_t(1)), quoted_element_t(Symbol("a")),
     tagged_element_t(<<"a">>, string_t(<<"b">>)),
     tagged_form_tight(<<"a">>, string_t(<<"b">>))}

\* whitespace and comments that may stand before the forms
Blanks == {<<>>, <<" ">>, <<",", "\n">>, <<";", "c", "\n">>}

\* whitespace and comments that may stand after the forms
Trails == {<<>>, <<" ", ";", "c">>}

Sources ==
    {[forms |-> fs, lead |-> l, trail |-> t] :
        fs \in UNION {[1..n -> SourceForms] : n \in 0..MaxForms},
        l \in Blanks, t \in Trails}

\* the text of a source: the forms, a space between two, and the blanks around
SourceText(source) == source.lead \o RenderItems(source.forms, 1) \o source.trail

\* where in the text (1-based) the `{` of a map with an odd number of forms stands
OddMapLocations(source) ==
    UNION {{Len(source.lead) + ItemOffset(source.forms, k) + o + 1 :
               o \in OddMapOffsets(source.forms[k])} : k \in 1..Len(source.forms)}

(***************************************************************************)
(*                               SpecReader                                *)
(***************************************************************************)

\* a text is given to parse
ReaderInit ==
    /\ src \in Sources
    /\ input = SourceText(src)
    /\ phase = "text"
    /\ tokenized = <<>>
    /\ parsed = [ok |-> FALSE] /\ formatted = <<>> /\ reparsed = [ok |-> FALSE]
    /\ ScopeIdle
    /\ ValueIdle
    /\ EvalIdle

\* parse_fn::operator(): std::vector<token_t> tokens = tokenize(text)
Tokenize ==
    /\ phase = "text"
    /\ tokenized' = tokenize(input)
    /\ phase' = "tokens"
    /\ UNCHANGED <<src, input, parsed, formatted, reparsed, scopeVars, valueVars, evalVars>>

\* parse_fn::operator(): the values are read from the tokens and the result
\* is made of them
Parse ==
    /\ phase = "tokens"
    /\ \E ub \in UBOutcomes : parsed' = parse_tokens(tokenized, ub)
    /\ phase' = "parsed"
    /\ UNCHANGED <<src, input, tokenized, formatted, reparsed, scopeVars, valueVars, evalVars>>

\* operator<<(std::ostream&, const value_t&) on the parsed value
Format ==
    /\ phase = "parsed"
    /\ parsed.ok
    /\ formatted' = format(parsed.val)
    /\ phase' = "formatted"
    /\ UNCHANGED <<src, input, tokenized, parsed, reparsed, scopeVars, valueVars, evalVars>>

\* edn::parse on the formatted text
Reparse ==
    /\ phase = "formatted"
    /\ \E ub \in UBOutcomes : reparsed' = parse(formatted, ub)
    /\ phase' = "reparsed"
    /\ UNCHANGED <<src, input, tokenized, parsed, formatted, scopeVars, valueVars, evalVars>>

ReaderNext == Tokenize \/ Parse \/ Format \/ Reparse

SpecReader == ReaderInit /\ [][ReaderNext]_vars

(***************************************************************************)
(*                      Texts that are not well formed                     *)
(***************************************************************************)

\* a text with what is the matter with it, and where (1-based) in the text
\* the closing delimiter, the unfinished form, the opening quote or the number
\* stands; forms holds the forms of a text that was written from forms
TextCase(kind, text, loc) == [kind |-> kind, text |-> text, loc |-> loc, forms |-> <<>>]

\* a closing delimiter with no collection, or in a collection that another
\* delimiter opened
StrayCloserTexts ==
    {
     TextCase("stray", <<")">>, 1),
     TextCase("stray", <<"]">>, 1),
     TextCase("stray", <<"}">>, 1),
     TextCase("stray", <<"1", " ", ")">>, 3),
     TextCase("stray", <<"(", "1", " ", "]", " ", "2", ")">>, 4),
     TextCase("stray", <<"[", "1", " ", ")", " ", "2", "]">>, 4),
     TextCase("stray", <<"(", "1", " ", "}", " ", "2", ")">>, 4),
     TextCase("stray", <<"[", "1", " ", "2", ")">>, 6)}

\* texts that end before a form is complete
TruncatedTexts ==
    {
     TextCase("truncated", <<"(", "1">>, 1),
     TextCase("truncated", <<"[", "1">>, 1),
     TextCase("truncated", <<"{", ":", "a", " ", "1">>, 1),
     TextCase("truncated", <<"#", "{", "1">>, 1),
     TextCase("truncated", <<"'">>, 1),
     TextCase("truncated", <<"#", "a">>, 1),
     TextCase("truncated", <<"(", "1", " ", "[", "2">>, 4),
     TextCase("truncated", <<"'", "(">>, 2)}

\* texts with a quote that opens a string which is never closed
UnterminatedStringTexts ==
    {
     TextCase("unterminated_string", <<"\"", "a">>, 1),
     TextCase("unterminated_string", <<"\"">>, 1),
     TextCase("unterminated_string", <<"1", " ", "\"", "a", " ", "b">>, 3),
     TextCase("unterminated_string", <<"(", "\"", "a", ")">>, 2),
     TextCase("unterminated_string", <<"\"", "a", "\\", "\"">>, 1)}

\* integer literals outside [-2147483648, 2147483647]
IntegerOverflowTexts ==
    {
     TextCase("overflow", <<"2", "1", "4", "7", "4", "8", "3", "6", "4", "8">>, 1),
     TextCase("overflow", <<"-", "2", "1", "4", "7", "4", "8", "3", "6", "4", "9">>, 1),
     TextCase("overflow", <<"+", "2", "1", "4", "7", "4", "8", "3", "6", "4", "8">>, 1),
     TextCase("overflow", <<"9", "9", "9", "9", "9", "9", "9", "9", "9", "9", "9">>, 1),
     TextCase("overflow", <<"[", "2", "1", "4", "7", "4", "8", "3", "6", "4", "8", "]">>, 2)}

\* map literals in which a key occurs more than once
DuplicateKeyForms ==
    {map_form(<<Keyword("a"), integer_t(1), Keyword("a"), integer_t(2)>>),
     map_form(<<Keyword("a"), integer_t(1), Keyword("b"), integer_t(2), Keyword("a"),
                integer_t(3)>>),
     map_form(<<integer_t(1), Keyword("a"), integer_t(1), Keyword("b")>>),
     vector_t(<<map_form(<<Keyword("a"), integer_t(1), Keyword("a"), integer_t(2)>>)>>)}

DuplicateKeyTexts ==
    {[kind |-> "duplicate_key", text |-> Render(f), loc |-> 1, forms |-> <<f>>] :
        f \in DuplicateKeyForms}

\* well formed texts at the edges of the cases above
WellFormedTexts ==
    {
     TextCase("well_formed", <<"2", "1", "4", "7", "4", "8", "3", "6", "4", "7">>, 1),
     TextCase("well_formed", <<"-", "2", "1", "4", "7", "4", "8", "3", "6", "4", "8">>, 1),
     TextCase("well_formed", <<"\"", "a", "\"">>, 1),
     TextCase("well_formed", <<"(", "1", ")">>, 1),
     TextCase("well_formed", <<"'", "a">>, 1)}

TextCases ==
    StrayCloserTexts \cup TruncatedTexts \cup UnterminatedStringTexts
        \cup IntegerOverflowTexts \cup DuplicateKeyTexts \cup WellFormedTexts

TextSources ==
    {[kind |-> c.kind, text |-> c.text, loc |-> Len(l) + c.loc, forms |-> c.forms,
      lead |-> l, trail |-> tr] : c \in TextCases, l \in Blanks, tr \in Trails}

\* a text that is not written from forms is given to parse
TextInit ==
    /\ src \in TextSources
    /\ input = src.lead \o src.text \o src.trail
    /\ phase = "text"
    /\ tokenized = <<>>
    /\ parsed = [ok |-> FALSE] /\ formatted = <<>> /\ reparsed = [ok |-> FALSE]
    /\ ScopeIdle
    /\ ValueIdle
    /\ EvalIdle

SpecText == TextInit /\ [][ReaderNext]_vars

(***************************************************************************)
(*                          evaluate_fn (edn.hpp)                          *)
(*                                                                         *)
(* An evaluation threads a record st through every call:                   *)
(*   stk    the stack_t objects, oldest first; an object that has gone     *)
(*          out of scope stays in the sequence with live = FALSE           *)
(*   fns    the callable_t objects; a callable value names one by its n    *)
(*   trace  what the evaluation did so far, in order                       *)
(*   path   the values whose do_eval has been entered and not left         *)
(* A call gives [ok, crash, val, what, path, st]: the value, or the        *)
(* exception's message and the path at the throw, or the end of the        *)
(* process.                                                                *)
(***************************************************************************)

\* stack_t{frame_type{}, outer} as the evaluator makes it
live_stack_t(outer) == [frame |-> EmptyFrame, outer |-> outer, live |-> TRUE]

\* one part of an exception's message: a fixed text, the printed value put
\* after it and the number put after it (0 where there is none)
Msg(text, printed, n) == [text |-> text, printed |-> printed, n |-> n]

\* one step of an evaluation: what was done, the stack_t or callable_t it was
\* done at, the form or symbol, a position or depth, and the value
Event(ev, at, f, k, v) == [ev |-> ev, at |-> at, f |-> f, k |-> k, v |-> v]

Log(st, e) == [st EXCEPT !.trace = Append(@, e)]

Value(st, v) ==
    [ok |-> TRUE, crash |-> FALSE, val |-> v, what |-> <<>>, path |-> <<>>, st |-> st]

\* throw exception<>(...)
Raise(st, m) ==
    [ok |-> FALSE, crash |-> FALSE, val |-> nil_t, what |-> <<m>>, path |-> st.path,
     st |-> Log(st, Event("throw", 0, nil_t, 0, nil_t))]

\* the process is ended by a read of memory that is not the object's
Abort(st) ==
    [ok |-> FALSE, crash |-> TRUE, val |-> nil_t, what |-> <<Msg("SIGSEGV", <<>>, 0)>>,
     path |-> st.path, st |-> st]

\* What a read outside an object's lifetime or bounds gives: the end of the
\* process, or a value. A destroyed stack_t is read as it was left (reuse
\* FALSE) or as the live stack_t that now lies in its storage (reuse TRUE);
\* an element past the end of a span is read as val.
EvalUBOutcomes ==
    {[crash |-> TRUE, reuse |-> FALSE, val |-> nil_t]}
    \cup {[crash |-> FALSE, reuse |-> r, val |-> v] : r \in BOOLEAN, v \in {nil_t, invalid_t}}

\* span::at(i), span::operator[](i) (i from 0): no bounds check
at(xs, i, ub) == IF i < Len(xs) THEN xs[i + 1] ELSE ub.val

\* the read of one of the first n elements of xs ends the process
past_end(xs, n, ub) == Len(xs) < n /\ ub.crash

\* the live stack_t, other than the one the lookup started from, that was made
\* last: the caller's scope, whose storage a destroyed scope's address falls in
Reuser(stk, i, from) ==
    LET others == {j \in 1..Len(stk) : stk[j].live /\ j # from}
    IN IF others = {} THEN i ELSE CHOOSE j \in others : \A k \in others : k <= j

RECURSIVE stack_get(_, _, _, _, _)
\* stack_t::get(symbol) on a chain that may hold destroyed objects; dead tells
\* whether a destroyed object was read, at the object the symbol was found in
stack_get(stk, i, symbol, from, ub) ==
    IF ~stk[i].live
    THEN IF ub.crash
         THEN [found |-> FALSE, crash |-> TRUE, val |-> nil_t, dead |-> TRUE, at |-> i]
         ELSE LET j == IF ub.reuse THEN Reuser(stk, i, from) ELSE i
                  asLive == [stk EXCEPT ![j].live = TRUE]
                  stale == [crash |-> FALSE, reuse |-> FALSE, val |-> ub.val]
              IN [stack_get(asLive, j, symbol, from, stale) EXCEPT !.dead = TRUE]
    ELSE IF symbol \in DOMAIN stk[i].frame
         THEN [found |-> TRUE, crash |-> FALSE, val |-> stk[i].frame[symbol], dead |-> FALSE,
               at |-> i]
         ELSE IF stk[i].outer # 0
              THEN stack_get(stk, stk[i].outer, symbol, from, ub)
              ELSE [found |-> FALSE, crash |-> FALSE, val |-> nil_t, dead |-> FALSE, at |-> 0]

\* do_eval of a symbol: return stack[*symbol]
lookup(symbol, s, st, ub) ==
    LET r == stack_get(st.stk, s, symbol, s, ub)
        st1 == IF r.dead THEN Log(st, Event("dead", s, symbol_t(symbol), 0, nil_t)) ELSE st
    IN IF r.crash THEN Abort(st1)
       ELSE IF r.found
            THEN Value(Log(st1, Event("found", s, symbol_t(symbol), r.at, r.val)), r.val)
            ELSE Raise(Log(st1, Event("unbound", s, symbol_t(symbol), 0, nil_t)),
                       Msg("Unrecognized symbol", symbol, 0))

\* stack.insert(symbol, v) on the stack_t at i
Insert(st, i, symbol, v) ==
    Log([st EXCEPT !.stk = insert(@, i, symbol, v).stack],
        Event("insert", i, symbol_t(symbol), 0, v))

\* a stack_t local to eval_let / clojure_t::operator() goes out of scope
destroy(new, r) == [r EXCEPT !.st.stk[new].live = FALSE]

\* clojure_t{self, overloads, stack}; overload_t{parameters, body}
clojure_t(overloads, s) == [host |-> "", overloads |-> overloads, stack |-> s]

overload_t(parameters, body) == [parameters |-> parameters, body |-> body]

\* a callable_t the host has put into its stack
host_callable(name) == [host |-> name, overloads |-> <<>>, stack |-> 0]

\* overload_t::params(): the symbols before the first `&`, and the first of the
\* symbols after it
params(parameters) ==
    LET xs == parameters.xs
        IsAmp(v) == v.type = "symbol" /\ v.s = <<"&">>
        amp == {i \in 1..Len(xs) : IsAmp(xs[i])}
        first == IF amp = {} THEN Len(xs) + 1 ELSE MinOf(amp)
        NotAmp(v) == ~IsAmp(v)
        Name(v) == v.s
        before == SubSeq(xs, 1, first - 1)
        after == SelectSeq(SubSeq(xs, first + 1, Len(xs)), NotAmp)
    IN [ok |-> parameters.type = "vector" /\ \A i \in 1..Len(xs) : xs[i].type = "symbol",
        what |-> IF parameters.type = "vector" THEN "symbol required" ELSE "vector required",
        mandatory |-> [i \in 1..Len(before) |-> before[i].s],
        variadic |-> IF after = <<>> THEN <<>> ELSE <<after[1].s>>]

RECURSIVE bind(_, _, _, _, _)
\* the loop over args: new_stack.insert(mandatory.at(i), args.at(i))
bind(st, new, mandatory, args, i) ==
    IF i > Len(mandatory) THEN st
    ELSE bind(Insert(st, new, mandatory[i], args[i]), new, mandatory, args, i + 1)

\* binary_op<Op> of main.cpp: two arguments or an exception; integers and
\* floating point numbers are computed with, anything else gives nil
binary_op(name, args, st) ==
    IF Len(args) # 2 THEN Raise(st, Msg("binary_op: two arguments expected", <<>>, 0))
    ELSE LET a == args[1]
             b == args[2]
             Num(v) == v.type \in {"integer", "floating_point"}
             Milli(v) == IF v.type = "integer" THEN v.n * 1000 ELSE v.n
             Units(v) == IF v.type = "integer" THEN v.n * 1000000 ELSE float_units(v)
         IN IF ~(Num(a) /\ Num(b)) THEN Value(st, nil_t)
            ELSE IF name = "<" THEN Value(st, boolean_t(Units(a) < Units(b)))
            ELSE IF a.type = "integer" /\ b.type = "integer"
                 THEN Value(st, integer_t(a.n + b.n))
                 ELSE Value(st, floating_point_t(Milli(a) + Milli(b), a.u + b.u))

RECURSIVE do_eval(_, _, _, _)
RECURSIVE eval_each(_, _, _, _, _, _)
RECURSIVE eval_each_next(_, _, _, _, _, _)
RECURSIVE eval_block(_, _, _, _, _, _)
RECURSIVE eval_block_next(_, _, _, _, _)
RECURSIVE eval_let_bind(_, _, _, _, _, _)
RECURSIVE eval_let_insert(_, _, _, _, _, _)
RECURSIVE resolve(_, _, _, _, _, _, _)
RECURSIVE eval_cond_from(_, _, _, _, _)

\* std::transform(input, back_inserter(output), do_eval): the values of the
\* items, left to right
eval_each(xs, k, s, acc, st, ub) ==
    IF k > Len(xs) THEN Value(st, vector_t(acc))
    ELSE eval_each_next(do_eval(xs[k], s, st, ub), xs, k, s, acc, ub)

eval_each_next(r, xs, k, s, acc, ub) ==
    IF ~r.ok THEN r ELSE eval_each(xs, k + 1, s, Append(acc, r.val), r.st, ub)

\* eval_block / eval_do: std::accumulate over the forms with do_eval, which
\* gives the last form's value, or nil for no form
eval_block(forms, k, s, last, st, ub) ==
    IF k > Len(forms) THEN Value(st, last)
    ELSE eval_block_next(do_eval(forms[k], s, st, ub), forms, k, s, ub)

eval_block_next(r, forms, k, s, ub) ==
    IF ~r.ok THEN r ELSE eval_block(forms, k + 1, s, r.val, r.st, ub)

eval_do(forms, s, st, ub) == eval_block(forms, 1, s, nil_t, st, ub)

\* the loop of eval_let, i the position of the next symbol in the bindings;
\* the binding's form is evaluated before the symbol is looked at
eval_let_bind(bindings, i, forms, new, st, ub) ==
    IF i > Len(bindings) THEN eval_block(Tail(forms), 1, new, nil_t, st, ub)
    ELSE IF i + 1 > Len(bindings)
         THEN Raise(st, Msg("vector::_M_range_check", <<>>, 0))
         ELSE eval_let_insert(do_eval(bindings[i + 1], new, st, ub),
                              bindings, i, forms, new, ub)

eval_let_insert(r, bindings, i, forms, new, ub) ==
    IF ~r.ok THEN r
    ELSE IF bindings[i].type # "symbol"
         THEN Raise(r.st, Msg("symbol expected", <<>>, 0))
         ELSE eval_let_bind(bindings, i + 2, forms, new,
                            Insert(r.st, new, bindings[i].s, r.val), ub)

\* eval_let: new_stack{frame_type{}, &stack}, the bindings, the body as a block
eval_let(forms, s, st, ub) ==
    IF past_end(forms, 1, ub) THEN Abort(st)
    ELSE IF at(forms, 0, ub).type # "vector"
         THEN Raise(st, Msg("vector expected", <<>>, 0))
         ELSE LET new == Len(st.stk) + 1
                  st1 == Log([st EXCEPT !.stk = Append(@, live_stack_t(s))],
                             Event("let", s, nil_t, new, nil_t))
              IN destroy(new, eval_let_bind(forms[1].xs, 1, forms, new, st1, ub))

eval_def_insert(r, symbol, s) ==
    IF ~r.ok THEN r
    ELSE IF symbol.type # "symbol" THEN Raise(r.st, Msg("symbol expected", <<>>, 0))
    ELSE Value(Insert(r.st, s, symbol.s, r.val), r.val)

\* eval_def: stack.insert(symbol, do_eval(input.at(1), stack))
eval_def(forms, s, st, ub) ==
    IF past_end(forms, 2, ub) THEN Abort(st)
    ELSE eval_def_insert(do_eval(at(forms, 1, ub), s, st, ub), at(forms, 0, ub), s)

\* create_overload for each list of the input when all of it is lists, else for
\* the input itself; the clojure_t keeps a reference to the stack
eval_callable(forms, s, st, ub) ==
    LET lists == \A k \in 1..Len(forms) : forms[k].type = "list"
        srcs == IF lists THEN [k \in 1..Len(forms) |-> forms[k].xs] ELSE <<forms>>
        bad == {k \in 1..Len(srcs) : srcs[k] = <<>> \/ srcs[k][1].type # "vector"}
        overloads == [k \in 1..Len(srcs) |-> overload_t(srcs[k][1], Tail(srcs[k]))]
    IN IF bad # {}
       THEN IF srcs[MinOf(bad)] = <<>> /\ ub.crash THEN Abort(st)
            ELSE Raise(st, Msg("callable: vector required", <<>>, 0))
       ELSE Value([st EXCEPT !.fns = Append(@, clojure_t(overloads, s))],
                  callable_t(Len(st.fns) + 1))

eval_fn(forms, s, st, ub) == eval_callable(forms, s, st, ub)

\* eval_defn: stack.insert(symbol, eval_callable(input.slice(1, {}), stack))
eval_defn(forms, s, st, ub) ==
    IF past_end(forms, 1, ub) THEN Abort(st)
    ELSE eval_def_insert(eval_callable(Drop(forms, 1), s, st, ub), at(forms, 0, ub), s)

\* deref(do_eval(value, stack).if_boolean(), "boolean expected")
\* eval_boolean_of with a value that is no Boolean let through, so that it
\* counts as false
eval_boolean_any(r) == r

eval_boolean_of(r) ==
    IF ~r.ok THEN r
    ELSE IF r.val.type # "boolean" THEN Raise(r.st, Msg("boolean expected", <<>>, 0))
    ELSE r

eval_boolean(value, s, st, ub) == eval_boolean_of(do_eval(value, s, st, ub))

eval_if_branch(r, forms, s, ub) ==
    IF ~r.ok THEN r
    ELSE LET i == IF r.val.n = 1 THEN 1 ELSE 2
         IN IF past_end(forms, i + 1, ub) THEN Abort(r.st)
            ELSE do_eval(at(forms, i, ub), s, r.st, ub)

\* eval_if: eval_boolean(input.at(0)) ? do_eval(input.at(1)) : do_eval(input.at(2))
eval_if(forms, s, st, ub) ==
    IF past_end(forms, 1, ub) THEN Abort(st)
    ELSE eval_if_branch(eval_boolean(at(forms, 0, ub), s, st, ub), forms, s, ub)

\* return do_eval(input.at(i + 1), stack)
eval_cond_expr(forms, i, s, st, ub) ==
    IF past_end(forms, i + 2, ub) THEN Abort(st)
    ELSE do_eval(at(forms, i + 1, ub), s, st, ub)

eval_cond_test(r, forms, i, s, ub) ==
    IF ~r.ok THEN r
    ELSE IF r.val.n = 1 THEN eval_cond_expr(forms, i, s, r.st, ub)
    ELSE eval_cond_from(forms, i + 2, s, r.st, ub)

\* eval_cond_from with the keyword `:else` evaluated like any other test
eval_cond_from_plain(forms, i, s, st, ub) ==
    IF i >= Len(forms) THEN Value(st, nil_t)
    ELSE eval_cond_test(eval_boolean(forms[i + 1], s, st, ub), forms, i, s, ub)

\* the loop of eval_cond, i (from 0) the position of the next test
eval_cond_from(forms, i, s, st, ub) ==
    IF i >= Len(forms) THEN Value(st, nil_t)
    ELSE IF operator_eq(forms[i + 1], keyword_t(<<"e", "l", "s", "e">>))
         THEN eval_cond_expr(forms, i, s, st, ub)
         ELSE eval_cond_test(eval_boolean(forms[i + 1], s, st, ub), forms, i, s, ub)

eval_cond(forms, s, st, ub) == eval_cond_from(forms, 0, s, st, ub)

\* resolve with a fixed overload that also takes more arguments than it has
\* parameters, the surplus left unbound
resolve_surplus(overloads, k, args, new, fn, st, ub) ==
    IF k > Len(overloads)
    THEN Raise(st, Msg("could not resolve function overload for", <<>>, Len(args)))
    ELSE LET p == params(overloads[k].parameters)
             m == Len(p.mandatory)
             chosen == Log(st, Event("body", fn, list_t(args), k, nil_t))
         IN IF ~p.ok THEN Raise(st, Msg(p.what, <<>>, 0))
            ELSE IF Len(args) >= m /\ p.variadic = <<>>
                 THEN eval_block(overloads[k].body, 1, new, nil_t,
                                 bind(chosen, new, p.mandatory, args, 1), ub)
            ELSE IF Len(args) > m /\ p.variadic # <<>>
                 THEN eval_block(overloads[k].body, 1, new, nil_t,
                                 Insert(bind(chosen, new, p.mandatory, args, 1), new,
                                        p.variadic[1], list_t(SubSeq(args, m + 1, Len(args)))),
                                 ub)
            ELSE resolve(overloads, k + 1, args, new, fn, st, ub)

\* the overloads from the k-th on: the first whose arity takes the arguments has
\* its parameters inserted into new_stack and its body evaluated there
resolve(overloads, k, args, new, fn, st, ub) ==
    IF k > Len(overloads)
    THEN Raise(st, Msg("could not resolve function overload for", <<>>, Len(args)))
    ELSE LET p == params(overloads[k].parameters)
             m == Len(p.mandatory)
             chosen == Log(st, Event("body", fn, list_t(args), k, nil_t))
         IN IF ~p.ok THEN Raise(st, Msg(p.what, <<>>, 0))
            ELSE IF Len(args) = m /\ p.variadic = <<>>
                 THEN eval_block(overloads[k].body, 1, new, nil_t,
                                 bind(chosen, new, p.mandatory, args, 1), ub)
            ELSE IF Len(args) > m /\ p.variadic # <<>>
                 THEN eval_block(overloads[k].body, 1, new, nil_t,
                                 Insert(bind(chosen, new, p.mandatory, args, 1), new,
                                        p.variadic[1], list_t(SubSeq(args, m + 1, Len(args)))),
                                 ub)
            ELSE resolve(overloads, k + 1, args, new, fn, st, ub)

\* clojure_call with the parameters bound in the captured stack itself
clojure_call_in_captured(fn, args, st, ub) ==
    resolve(st.fns[fn].overloads, 1, args, st.fns[fn].stack, fn,
            Log(st, Event("call", fn, list_t(args), st.fns[fn].stack, nil_t)), ub)

\* clojure_t::operator()(args): new_stack{&stack} on the captured stack, then
\* the overloads in order
clojure_call(fn, args, st, ub) ==
    LET new == Len(st.stk) + 1
        st1 == Log([st EXCEPT !.stk = Append(@, live_stack_t(st.fns[fn].stack))],
                   Event("call", fn, list_t(args), new, nil_t))
    IN destroy(new, resolve(st.fns[fn].overloads, 1, args, new, fn, st1, ub))

\* callable(args)
call(fn, args, st, ub) ==
    IF st.fns[fn].host # ""
    THEN binary_op(st.fns[fn].host, args, Log(st, Event("host", fn, list_t(args), 0, nil_t)))
    ELSE clojure_call(fn, args, st, ub)

eval_callable_call(r, fn, ub) ==
    IF ~r.ok THEN r ELSE call(fn, r.val.xs, r.st, ub)

\* eval_callable_args with the tail evaluated from its last form to its first
eval_callable_args_backwards(r, tail, s, ub) ==
    IF ~r.ok THEN r
    ELSE IF r.val.type # "callable"
         THEN Raise(r.st, Msg("callable expected, got", format(r.val), 0))
         ELSE eval_callable_call(
                  eval_each([k \in 1..Len(tail) |-> tail[Len(tail) + 1 - k]], 1, s, <<>>,
                            r.st, ub),
                  r.val.n, ub)

eval_callable_args(r, tail, s, ub) ==
    IF ~r.ok THEN r
    ELSE IF r.val.type # "callable"
         THEN Raise(r.st, Msg("callable expected, got", format(r.val), 0))
         ELSE eval_callable_call(eval_each(tail, 1, s, <<>>, r.st, ub), r.val.n, ub)

\* eval_callable(head, tail, stack): the head's value as a callable, the values
\* of the tail left to right, the call
eval_callable_head(head, tail, s, st, ub) ==
    eval_callable_args(do_eval(head, s, st, ub), tail, s, ub)

\* whether the head of a list is the symbol of the name
is_form(head, name) == operator_eq(head, symbol_t(name))

\* eval_list with nil for the empty list
eval_list_nil(forms, s, st, ub) ==
    IF forms.xs = <<>> THEN Value(st, nil_t)
    ELSE eval_callable_head(forms.xs[1], Tail(forms.xs), s, st, ub)

\* eval_list: the empty list is itself; a special form by the head's name; else
\* a call
eval_list(forms, s, st, ub) ==
    IF forms.xs = <<>> THEN Value(st, forms)
    ELSE LET head == forms.xs[1]
             tail == Tail(forms.xs)
         IN CASE is_form(head, <<"q", "u", "o", "t", "e">>) ->
                     IF past_end(tail, 1, ub) THEN Abort(st) ELSE Value(st, at(tail, 0, ub))
              [] is_form(head, <<"l", "e", "t">>) -> eval_let(tail, s, st, ub)
              [] is_form(head, <<"d", "e", "f">>) -> eval_def(tail, s, st, ub)
              [] is_form(head, <<"f", "n">>) -> eval_fn(tail, s, st, ub)
              [] is_form(head, <<"d", "e", "f", "n">>) -> eval_defn(tail, s, st, ub)
              [] is_form(head, <<"i", "f">>) -> eval_if(tail, s, st, ub)
              [] is_form(head, <<"c", "o", "n", "d">>) -> eval_cond(tail, s, st, ub)
              [] is_form(head, <<"d", "o">>) -> eval_do(tail, s, st, ub)
              [] OTHER -> eval_callable_head(head, tail, s, st, ub)

\* eval_vector
eval_vector(forms, s, st, ub) == eval_each(forms.xs, 1, s, <<>>, st, ub)

eval_set_of(r) ==
    IF ~r.ok THEN r ELSE [r EXCEPT !.val = set_t("edn", r.val.xs)]

\* eval_set: the values of the elements, inserted into a new set
eval_set(forms, s, st, ub) == eval_set_of(eval_each(forms.xs, 1, s, <<>>, st, ub))

\* k2 k1 k4 k3 ...: in output.emplace(do_eval(k), do_eval(v)) the value's form
\* is evaluated before the key's
SwapPairs(xs) ==
    [i \in 1..Len(xs) |-> IF i % 2 = 1 THEN xs[i + 1] ELSE xs[i - 1]]

eval_map_of(r) ==
    IF ~r.ok THEN r ELSE [r EXCEPT !.val = map_t("edn", SwapPairs(r.val.xs))]

\* eval_map: the values of the keys and of the mapped forms, emplaced into a new map
eval_map(forms, s, st, ub) ==
    eval_map_of(eval_each(SwapPairs(forms.xs), 1, s, <<>>, st, ub))

\* the return from do_eval, by a value or by an exception
leave(r, s) ==
    IF r.ok
    THEN [r EXCEPT !.st = [Log(@, Event("return", s, nil_t, Len(@.path), r.val))
                              EXCEPT !.path = SubSeq(@, 1, Len(@) - 1)]]
    ELSE [r EXCEPT !.st.path = SubSeq(@, 1, Len(@) - 1)]

\* eval_self with the payload of a tagged element evaluated in its place
eval_payload(value, s, st, ub) ==
    IF value.type = "tagged_element" /\ value.xs # <<>>
    THEN do_eval(value.xs[1], s, st, ub)
    ELSE Value(st, value)

\* return value: a value that is no symbol and no collection is its own value
eval_self(value, s, st, ub) == Value(st, value)

\* do_eval(value, stack)
do_eval(value, s, st, ub) ==
    LET st1 == [Log(st, Event("do_eval", s, value, Len(st.path) + 1, nil_t))
                    EXCEPT !.path = Append(@, value)]
    IN leave(CASE value.type = "symbol" -> lookup(value.s, s, st1, ub)
               [] value.type = "list" -> eval_list(value, s, st1, ub)
               [] value.type = "vector" -> eval_vector(value, s, st1, ub)
               [] value.type = "set" -> eval_set(value, s, st1, ub)
               [] value.type = "map" -> eval_map(value, s, st1, ub)
               [] OTHER -> eval_self(value, s, st1, ub), s)

\* catch (const std::exception& ex): throw exception<>("Error on evaluating `",
\* value, "`: ", ex.what())
rethrow(r, value) ==
    IF r.ok \/ r.crash THEN r
    ELSE [r EXCEPT !.what = <<Msg("Error on evaluating", format(value), 0)>> \o @]

\* evaluate_fn::eval(value, stack)
eval(value, s, st, ub) == rethrow(do_eval(value, s, st, ub), value)

\* evaluate_fn::operator()(value, stack)
evaluate(value, s, st, ub) == eval(value, s, st, ub)

(***************************************************************************)
(*                                SpecEval                                 *)
(***************************************************************************)

\* bound: how many evaluate calls are made on the host's stack
MaxEvals == 2

Plus == <<"+">>

Less == <<"<">>

\* the callables the host installs: binary_op<std::plus<>>, binary_op<std::less<>>
HostCallables == <<host_callable("+"), host_callable("<")>>

\* the host's stack_t{nullptr} with its callables inserted
HostStack ==
    [frame |-> (Plus :> callable_t(1)) @@ (Less :> callable_t(2)), outer |-> 0, live |-> TRUE]

\* the state an evaluate call starts from
StartOf(stk, callables) == [stk |-> stk, fns |-> callables, trace |-> <<>>, path |-> <<>>]

\* the values given to evaluate
EvalForms ==
    LET Name(s) == symbol_t(s)
        List(xs) == list_t(xs)
        Vec(xs) == vector_t(xs)
        Fn == Name(<<"f", "n">>)
        Def == Name(<<"d", "e", "f">>)
        Defn == Name(<<"d", "e", "f", "n">>)
        Let == Name(<<"l", "e", "t">>)
        If == Name(<<"i", "f">>)
        Cond == Name(<<"c", "o", "n", "d">>)
        Do == Name(<<"d", "o">>)
        Amp == Name(<<"&">>)
        a == Symbol("a")
        f == Symbol("f")
        g == Symbol("g")
        h == Symbol("h")
        r == Symbol("r")
        x == Symbol("x")
        y == Symbol("y")
        ka == Keyword("a")
        kb == Keyword("b")
        kc == Keyword("c")
        else == keyword_t(<<"e", "l", "s", "e">>)
        one == integer_t(1)
        two == integer_t(2)
        Boom == List(<<Name(Plus), one>>)
        Three == List(<<Name(Plus), one, two>>)
        Yes == List(<<Name(Less), one, two>>)
        No == List(<<Name(Less), two, one>>)
        Rest == List(<<Fn, Vec(<<x, Amp, r>>), r>>)
        Id == List(<<Fn, Vec(<<x>>), x>>)
        Closure == List(<<Let, Vec(<<a, one>>), List(<<Fn, Vec(<<>>), a>>)>>)
    IN {nil_t, boolean_t(TRUE), one, floating_point_t(2500, 0), character_t("a"),
        string_t(<<"a">>), ka, tagged_element_t(<<"a">>, Boom),
        edn_tagged_element_t(<<"a">>), callable_t(1), a,
        List(<<Rest, one>>), List(<<Rest, one, two>>),
        List(<<List(<<Fn, Vec(<<Amp, r>>), r>>)>>),
        List(<<Id>>), List(<<Id, one, two>>),
        List(<<List(<<Fn, List(<<Vec(<<x>>), ka>>), List(<<Vec(<<x>>), kb>>)>>), one>>),
        List(<<List(<<Fn, List(<<Vec(<<x>>), ka>>), List(<<Vec(<<x, y>>), kb>>)>>), one, two>>),
        List(<<List(<<Fn, List(<<Vec(<<x, Amp, r>>), ka>>), List(<<Vec(<<x>>), kb>>)>>), one>>),
        List(<<List(<<Fn, List(<<Vec(<<x, Amp, r>>), ka>>), List(<<Vec(<<x, y>>), kb>>)>>),
               one, two>>),
        List(<<Def, f, Closure>>), List(<<f>>), List(<<Let, Vec(<<a, two>>), List(<<f>>)>>),
        List(<<Defn, f, Vec(<<>>), a>>), List(<<Closure>>),
        List(<<Let, Vec(<<a, one>>), List(<<List(<<Fn, Vec(<<>>), a>>)>>)>>),
        List(<<Do, Boom>>), Vec(<<one, a>>),
        List(<<If, Yes, ka, kb>>), List(<<If, No, ka, kb>>), List(<<If, Three, ka, kb>>),
        List(<<If, nil_t, ka, kb>>), List(<<If, Boom, ka, kb>>),
        List(<<Cond, No, ka, Yes, kb, else, kc>>), List(<<Cond, No, ka, else, kb, Yes, kc>>),
        List(<<Cond, No, ka>>), List(<<Cond, Three, ka, Yes, kb>>), List(<<Cond>>),
        List(<<Cond, Yes, Boom, No, kb>>),
        List(<<>>), Vec(<<List(<<>>)>>),
        List(<<Fn, Vec(<<x, one>>), x>>), List(<<Fn, Vec(<<x, Amp>>), x>>),
        List(<<Fn, one, x>>),
        List(<<List(<<Fn, Vec(<<x, y>>), y>>), Three, Yes>>),
        List(<<Name(Plus), Three, Boom, Yes>>), List(<<one, Three>>),
        List(<<Defn, g, Vec(<<x>>), List(<<Def, y, x>>)>>),
        List(<<Do, List(<<g, one>>), y>>), List(<<g, two>>),
        List(<<Defn, h, Vec(<<x>>), List(<<If, List(<<Name(Less), x, two>>), x, List(<<h, one>>)>>)>>),
        List(<<h, two>>), List(<<Do, List(<<Def, a, one>>), List(<<f>>)>>),
        List(<<Let, Vec(<<a, one>>), List(<<Def, f, List(<<Fn, Vec(<<>>), y>>)>>),
               List(<<Def, y, two>>), List(<<f>>)>>),
        List(<<List(<<Let, Vec(<<a, one>>), List(<<Def, f, List(<<Fn, Vec(<<>>), y>>)>>),
                      List(<<Def, y, two>>), f>>)>>)}

NoOutcome ==
    [ok |-> FALSE, crash |-> FALSE, val |-> nil_t, what |-> <<>>, path |-> <<>>,
     trace |-> <<>>]

\* the host has made its stack and has evaluated nothing
EvalInit ==
    /\ frames = <<HostStack>>
    /\ fns = HostCallables
    /\ given = nil_t
    /\ outcome = NoOutcome
    /\ evals = 0
    /\ ScopeIdle
    /\ ValueIdle
    /\ ReaderIdle

\* what an evaluate call leaves: the stacks and callables, and what it gave
Evaluated(r, value) ==
    /\ given' = value
    /\ outcome' = [ok |-> r.ok, crash |-> r.crash, val |-> r.val, what |-> r.what,
                   path |-> r.path, trace |-> r.st.trace]
    /\ frames' = r.st.stk
    /\ fns' = r.st.fns
    /\ evals' = evals + 1

\* edn::evaluate(value, stack) on the host's stack
Evaluate ==
    /\ evals < MaxEvals
    /\ ~outcome.crash
    /\ \E value \in EvalForms, ub \in EvalUBOutcomes :
           Evaluated(evaluate(value, 1, StartOf(frames, fns), ub), value)
    /\ UNCHANGED <<scopeVars, valueVars, readerVars>>

EvalNext == Evaluate

SpecEval == EvalInit /\ [][EvalNext]_vars

(***************************************************************************)
(*                         Claims on the scope chain                       *)
(***************************************************************************)

\* C1: after a define (def / defn / let binding / parameter binding) of symbol
\* with value v in a scope, lookup of symbol in that scope yields v, the value
\* the define returned, also when symbol was already bound in that frame.
C1_DefineOverwrites ==
    (lastOp.op \in {"insert", "let", "invoke"} /\ lastOp.symbol # "")
        => get(stack, lastOp.at, lastOp.symbol) = Found(lastOp.symbol, lastOp.ret)

\* C2: no step changes the frame of a scope that is outer to the current one:
\* every scope below the top keeps its frame, and lookup of every symbol in
\* it gives afterwards what it gave before.
C2_OuterFramesUnchanged ==
    [][\A i \in 1..Len(stack) :
          i < Len(stack') =>
              /\ stack'[i] = stack[i]
              /\ \A s \in Symbols : get(stack', i, s) = get(stack, i, s)]_vars

\* a define in a child scope of a symbol the enclosing scope binds to another value
C2_Witness ==
    /\ lastOp.op = "insert"
    /\ lastOp.at >= 2
    /\ LET o == stack[lastOp.at].outer IN
        /\ lastOp.symbol \in DOMAIN stack[o].frame
        /\ stack[o].frame[lastOp.symbol] # lastOp.val
        /\ stack[lastOp.at].frame[lastOp.symbol] = lastOp.val

RECURSIVE ScopeChain(_, _)
\* the scopes searched from scope i outwards, innermost first
ScopeChain(stk, i) == IF i = 0 THEN <<>> ELSE <<i>> \o ScopeChain(stk, stk[i].outer)

Binders(stk, i, symbol) ==
    {k \in 1..Len(ScopeChain(stk, i)) : symbol \in DOMAIN stk[ScopeChain(stk, i)[k]].frame}

Innermost(ks) == CHOOSE k \in ks : \A j \in ks : k <= j

\* C3: lookup yields the binding of the innermost frame of the chain that
\* binds the symbol; when no frame binds it, it fails with the unbound-symbol
\* error naming the symbol and yields no value.
C3_LookupInnermostOrError ==
    lastOp.op = "get" =>
        LET ch == ScopeChain(stack, lastOp.at)
            bs == Binders(stack, lastOp.at, lastOp.symbol)
        IN IF bs = {}
           THEN /\ lastOp.res.ok = FALSE
                /\ lastOp.res.what = "Unrecognized symbol"
                /\ lastOp.res.symbol = lastOp.symbol
           ELSE lastOp.res = Found(lastOp.symbol,
                                   stack[ch[Innermost(bs)]].frame[lastOp.symbol])

\* a lookup through a chain of two or more frames that failed, in a stack
\* where another symbol is bound in an inner frame and, differently, in its outer
C3_Witness ==
    /\ lastOp.op = "get"
    /\ ~lastOp.res.ok
    /\ Len(ScopeChain(stack, lastOp.at)) >= 2
    /\ \E s \in Symbols :
          LET o == stack[lastOp.at].outer IN
          /\ s \in DOMAIN stack[lastOp.at].frame
          /\ s \in DOMAIN stack[o].frame
          /\ stack[lastOp.at].frame[s] # stack[o].frame[s]

(***************************************************************************)
(*                     Claims on the ordering of values                    *)
(***************************************************************************)

\* C4: for any two values a and b, exactly one of a < b, a == b, b < a holds
\* (value.hpp and edn.hpp alike); values of different variants are never
\* equal and are strictly ordered one way.
C4_Trichotomy ==
    cmp.op = "compare" =>
        /\ (cmp.lt /\ ~cmp.eq /\ ~cmp.gt) \/ (~cmp.lt /\ cmp.eq /\ ~cmp.gt)
                \/ (~cmp.lt /\ ~cmp.eq /\ cmp.gt)
        /\ cmp.a.type # cmp.b.type => (~cmp.eq /\ (cmp.lt \/ cmp.gt))

PairwiseUnequal(xs) ==
    \A i \in 1..Len(xs), j \in 1..Len(xs) : i # j => ~eq_visitor(xs[i], xs[j])

\* C5: a set (a map) holds every value (key) it was given when those values
\* are pairwise unequal under ==, whatever their variants.
C5_UnequalValuesRetained ==
    /\ PairwiseUnequal(offered) => Len(vset) = Len(offered)
    /\ PairwiseUnequal(keys) => Len(vmap) = 2 * Len(keys)

\* C6: two tagged elements are equal exactly when their tags are equal and
\* their payloads are equal, and a < b exactly when (tag, payload) of a
\* precedes (tag, payload) of b lexicographically.
C6_TaggedByTagAndPayload ==
    (cmp.op = "compare" /\ cmp.impl = "value.hpp"
        /\ cmp.a.type = "tagged_element" /\ cmp.b.type = "tagged_element") =>
        /\ cmp.eq <=> (cmp.a.s = cmp.b.s /\ eq_visitor(cmp.a.xs[1], cmp.b.xs[1]))
        /\ cmp.lt <=> \/ string_lt(cmp.a.s, cmp.b.s)
                      \/ cmp.a.s = cmp.b.s /\ lt_visitor(cmp.a.xs[1], cmp.b.xs[1])

(***************************************************************************)
(*                          Claims on the reader                           *)
(***************************************************************************)

\* the text was parsed
Parsed == phase \in {"parsed", "formatted", "reparsed"}

\* C7: for every value v that parse produced (reading nothing past the end
\* of the items of a map), parse(format(v)) succeeds and its value equals v.
C7_RoundTrip ==
    (phase = "reparsed" /\ ~parsed.oob) =>
        (reparsed.ok /\ operator_eq(reparsed.val, parsed.val))

\* C8: parse of a text that holds no form (nothing, or whitespace and
\* comments only) returns nil, not a list.
C8_NoFormIsNil ==
    (Parsed /\ src.forms = <<>>) => (parsed.ok /\ parsed.val = nil_t)

\* C9: when parse succeeds on a text of k top-level forms, k >= 2 gives the
\* list of `do` and the k values in order, k = 1 gives the one value itself,
\* and the result holds no `do` that the text does not hold, but for the one
\* at the head of the list that is made when k is not 1.
C9_DoWrapsTopLevelOnly ==
    (Parsed /\ parsed.ok) =>
        LET k == Len(src.forms) IN
        /\ k >= 2 => /\ parsed.val.type = "list"
                     /\ Len(parsed.val.xs) = k + 1
                     /\ parsed.val.xs = <<do_symbol>> \o parsed.values
        /\ k = 1 => (Len(parsed.values) = 1 /\ parsed.val = parsed.values[1])
        /\ DoCount(parsed.val)
               <= DoCount(list_t(src.forms)) + (IF k = 1 THEN 0 ELSE 1)

\* C10: parse of a text with a map literal of an odd number of forms fails
\* with an error located at the `{` of such a literal; it returns no value
\* and reads nothing past the end of the items.
C10_OddMapIsReaderError ==
    (Parsed /\ OddMapLocations(src) # {}) =>
        /\ ~parsed.ok
        /\ ~parsed.oob
        /\ parsed.loc \in OddMapLocations(src)

\* C11: a text holding `#`, a symbol s and a form f, with a blank between s and
\* f or with f a string literal right after s, parses to the one value
\* Tagged(tag = s, payload = f)
C11_TaggedIsOneValue ==
    (Parsed /\ Len(src.forms) = 1 /\ src.forms[1].type = "tagged_element") =>
        /\ parsed.ok
        /\ parsed.val = tagged_element_t(src.forms[1].s, src.forms[1].xs[1])


(***************************************************************************)
(*                         Claims on the evaluator                         *)
(***************************************************************************)

\* the positions of the events of the kind in the last evaluation
Events(ev) == {i \in 1..Len(outcome.trace) : outcome.trace[i].ev = ev}

\* the overloads of the callable an event names, with their parameters read
ParamsOf(e) == [k \in 1..Len(fns[e.at].overloads) |-> params(fns[e.at].overloads[k].parameters)]

\* the arity rule of the specification: a fixed overload takes exactly its
\* mandatory count, a variadic one takes that count or more
ArityTakes(p, n) ==
    IF p.variadic = <<>> THEN n = Len(p.mandatory) ELSE n >= Len(p.mandatory)

\* the overloads of a call that the arity rule lets take its arguments
Taking(e) ==
    {k \in 1..Len(ParamsOf(e)) : ParamsOf(e)[k].ok /\ ArityTakes(ParamsOf(e)[k], Len(e.f.xs))}

\* whether the body event right after the call at i selects overload k
Selects(i, k) ==
    /\ i + 1 <= Len(outcome.trace)
    /\ outcome.trace[i + 1].ev = "body"
    /\ outcome.trace[i + 1].k = k

\* C12: a call of a function whose one overload is variadic with m mandatory
\* parameters selects it exactly when the argument count n is at least m, and
\* binds the rest symbol to the list of the arguments after the m-th, the
\* empty list when n = m
C12_VariadicTakesAtLeastMandatory ==
    \A i \in Events("call") :
        LET e == outcome.trace[i]
            p == ParamsOf(e)[1]
            m == Len(p.mandatory)
            n == Len(e.f.xs)
        IN (Len(ParamsOf(e)) = 1 /\ p.ok /\ p.variadic # <<>>) =>
               IF n >= m
               THEN /\ Selects(i, 1)
                    /\ i + m + 2 <= Len(outcome.trace)
                    /\ outcome.trace[i + m + 2] =
                           Event("insert", e.k, symbol_t(p.variadic[1]), 0,
                                 list_t(SubSeq(e.f.xs, m + 1, n)))
               ELSE ~Selects(i, 1)

\* C13: a call whose argument count no overload takes fails with the
\* no-overload error carrying the count, and before it no parameter is bound
\* in the call's frame and no form is evaluated there
C13_NoOverloadIsError ==
    \A i \in Events("call") :
        LET e == outcome.trace[i]
        IN ((\A k \in 1..Len(ParamsOf(e)) : ParamsOf(e)[k].ok) /\ Taking(e) = {}) =>
               /\ ~outcome.ok
               /\ ~outcome.crash
               /\ outcome.what[Len(outcome.what)] =
                      Msg("could not resolve function overload for", <<>>, Len(e.f.xs))
               /\ i + 1 = Len(outcome.trace)
               /\ outcome.trace[i + 1].ev = "throw"
               /\ \A j \in 1..Len(outcome.trace) :
                      outcome.trace[j].ev \in {"insert", "do_eval"} => outcome.trace[j].at # e.k

\* a call with two arguments of a function of one parameter has failed
C13_Witness ==
    /\ ~outcome.ok
    /\ \E i \in Events("call") :
           /\ Len(outcome.trace[i].f.xs) = 2
           /\ Len(ParamsOf(outcome.trace[i])) = 1
           /\ Taking(outcome.trace[i]) = {}

\* C14: a call selects the first overload, in declaration order, that the
\* arity rule lets take its arguments, also when a later one takes them too
C14_FirstTakingOverloadSelected ==
    \A i \in Events("call") :
        LET e == outcome.trace[i]
        IN ((\A k \in 1..Len(ParamsOf(e)) : ParamsOf(e)[k].ok) /\ Taking(e) # {}) =>
               Selects(i, MinOf(Taking(e)))

\* C15: no evaluation reads a scope frame that has been destroyed: the scope a
\* function was created in is still there whenever the function is invoked
C15_NoDestroyedFrameRead ==
    \A i \in 1..Len(outcome.trace) : outcome.trace[i].ev # "dead"

\* C16: the frame of a call is chained to the scope the function was created
\* in, and every symbol is found in a frame of the chain of the scope it is
\* looked up in, so never in a frame that only the caller has
C16_LexicalScope ==
    /\ \A i \in Events("call") :
           frames[outcome.trace[i].k].outer = fns[outcome.trace[i].at].stack
    /\ \A i \in Events("found") :
           \E j \in 1..Len(ScopeChain(frames, outcome.trace[i].at)) :
               ScopeChain(frames, outcome.trace[i].at)[j] = outcome.trace[i].k

\* the prefix the evaluator puts before the message of a failure in the form
ErrorOnEvaluating(value) == Msg("Error on evaluating", format(value), 0)

\* C17: the error of a failed evaluation has one prefix for every form that
\* was being evaluated when the failure arose, the outermost first and the
\* failing innermost last, and then the innermost message
C17_PrefixPerEnclosingForm ==
    (evals > 0 /\ ~outcome.ok /\ ~outcome.crash) =>
        /\ Len(outcome.what) = Len(outcome.path) + 1
        /\ \A i \in 1..Len(outcome.path) : outcome.what[i] = ErrorOnEvaluating(outcome.path[i])
        /\ outcome.what[Len(outcome.what)].text # "Error on evaluating"

IsChildEval(e) == e.ev = "do_eval" /\ e.k = 2

IsChildReturn(e) == e.ev = "return" /\ e.k = 2

\* the forms the last evaluation evaluated directly below the given form, in
\* the order it evaluated them
ChildEvals == SelectSeq(outcome.trace, IsChildEval)

\* the values those evaluations returned, in order
ChildReturns == SelectSeq(outcome.trace, IsChildReturn)

\* whether the value is a list of the special form with `count` forms after
\* the head
IsForm(v, name, count) ==
    v.type = "list" /\ Len(v.xs) = count + 1 /\ is_form(v.xs[1], name)

BooleanExpected ==
    /\ ~outcome.ok
    /\ ~outcome.crash
    /\ outcome.what[Len(outcome.what)] = Msg("boolean expected", <<>>, 0)

\* the evaluation ended with the evaluation at position j of ChildEvals: its
\* value if it returned one, its failure otherwise
EndsWith(j) ==
    /\ Len(ChildEvals) = j
    /\ IF Len(ChildReturns) = j
       THEN outcome.ok /\ outcome.val = ChildReturns[j].v
       ELSE ~outcome.ok

\* C18: (if c t e) evaluates c once; when c gives no Boolean the error is
\* raised and neither t nor e is evaluated; otherwise exactly one of t and e
\* is evaluated, t for true and e for false, and its value is the result
C18_IfEvaluatesOneBranch ==
    (evals > 0 /\ IsForm(given, <<"i", "f">>, 3)) =>
        /\ Len(ChildEvals) >= 1
        /\ ChildEvals[1].f = given.xs[2]
        /\ IF ChildReturns = <<>> THEN EndsWith(1)
           ELSE IF ChildReturns[1].v.type # "boolean"
                THEN Len(ChildEvals) = 1 /\ BooleanExpected
                ELSE /\ EndsWith(2)
                     /\ ChildEvals[2].f =
                            (IF ChildReturns[1].v.n = 1 THEN given.xs[3] ELSE given.xs[4])

\* an if whose condition gave false has evaluated its third form and nothing
\* else
C18_Witness ==
    /\ evals > 0
    /\ IsForm(given, <<"i", "f">>, 3)
    /\ Len(ChildReturns) = 2
    /\ ChildReturns[1].v = boolean_t(FALSE)
    /\ ChildEvals[2].f = given.xs[4]
    /\ outcome.ok

RECURSIVE CondWalk(_, _, _)
\* What cond has to have done from its i-th pair on, the evaluations before
\* position j of ChildEvals being those of the tests before it, all false.
\* `strict` tells what a test that gives no Boolean does: the error (TRUE),
\* or no match, so that the next pair is examined (FALSE).
CondWalk(i, j, strict) ==
    LET tail == Tail(given.xs)
    IN IF 2 * i > Len(tail)
       THEN Len(ChildEvals) = j - 1 /\ outcome.ok /\ outcome.val = nil_t
       ELSE IF operator_eq(tail[2 * i - 1], keyword_t(<<"e", "l", "s", "e">>))
            THEN /\ Len(ChildEvals) >= j
                 /\ ChildEvals[j].f = tail[2 * i]
                 /\ EndsWith(j)
            ELSE /\ Len(ChildEvals) >= j
                 /\ ChildEvals[j].f = tail[2 * i - 1]
                 /\ IF Len(ChildReturns) < j THEN EndsWith(j)
                    ELSE IF ChildReturns[j].v = boolean_t(TRUE)
                         THEN /\ Len(ChildEvals) >= j + 1
                              /\ ChildEvals[j + 1].f = tail[2 * i]
                              /\ EndsWith(j + 1)
                    ELSE IF ChildReturns[j].v = boolean_t(FALSE) \/ ~strict
                         THEN CondWalk(i + 1, j + 1, strict)
                    ELSE Len(ChildEvals) = j /\ BooleanExpected

IsCond(v) == v.type = "list" /\ Len(v.xs) % 2 = 1 /\ is_form(v.xs[1], <<"c", "o", "n", "d">>)

\* C19 as stated: cond examines its tests in order and stops at the first that
\* is `:else`, which it does not evaluate, or that gives Boolean true; it
\* evaluates that test's expr only and returns its value; a test that gives
\* anything else does not match, and with no match the result is Nil
C19_CondStopsAtFirstMatch ==
    (evals > 0 /\ IsCond(given)) => CondWalk(1, 1, FALSE)

\* C19, amended: as stated, but a test that gives a value that is no Boolean
\* raises the boolean-expected error and nothing after it is evaluated; the
\* result is Nil when every test gives Boolean false
C19_CondStopsAtFirstMatchOrNonBoolean ==
    (evals > 0 /\ IsCond(given)) => CondWalk(1, 1, TRUE)

\* a cond has stopped at its second test, with a pair after it left alone
C19_Witness ==
    /\ evals > 0
    /\ IsCond(given)
    /\ Len(given.xs) = 7
    /\ Len(ChildEvals) = 3
    /\ ChildReturns[1].v = boolean_t(FALSE)
    /\ ChildReturns[2].v = boolean_t(TRUE)
    /\ outcome.ok
    /\ outcome.val = given.xs[5]

\* the types whose values are their own value
SelfEvaluating ==
    {"nil", "boolean", "integer", "floating_point", "character", "string", "keyword",
     "tagged_element", "callable"}

\* C20: evaluating a value of a self-evaluating type returns that value and
\* changes no scope frame and no callable; the payload of a tagged element is
\* not evaluated
C20_SelfEvaluatingReturnsItself ==
    [][(evals' = evals + 1 /\ given'.type \in SelfEvaluating) =>
           /\ outcome'.ok
           /\ outcome'.val = given'
           /\ outcome'.trace = <<Event("do_eval", 1, given', 1, nil_t),
                                 Event("return", 1, nil_t, 1, given')>>
           /\ frames' = frames
           /\ fns' = fns]_vars

\* a tagged element whose payload would fail has been evaluated, after a
\* definition has been made in the scope
C20_Witness ==
    /\ evals = 2
    /\ given.type = "tagged_element"
    /\ given.xs # <<>>
    /\ outcome.ok
    /\ outcome.val = given
    /\ DOMAIN frames[1].frame # DOMAIN HostStack.frame

ValidParameters(parameters) ==
    LET amp == {i \in 1..Len(parameters.xs) : parameters.xs[i] = symbol_t(<<"&">>)}
    IN /\ parameters.type = "vector"
       /\ \A i \in 1..Len(parameters.xs) : parameters.xs[i].type = "symbol"
       /\ Cardinality(amp) <= 1
       /\ \A i \in amp : i < Len(parameters.xs)

\* C22: no callable is ever made of a parameter list that is not valid: fn and
\* defn fail with the bad-parameters error when the function value is made
C22_NoCallableOfBadParameters ==
    \A n \in 1..Len(fns) :
        \A k \in 1..Len(fns[n].overloads) : ValidParameters(fns[n].overloads[k].parameters)

(***************************************************************************)
(*                Claims on texts that are not well formed                 *)
(***************************************************************************)

\* parse has run on a text of the kind
ParsedKind(kind) == Parsed /\ src.kind = kind

\* C23: parse of a text with a closing delimiter that closes no collection,
\* or that stands in a collection another delimiter opened, fails with a
\* reader error; the delimiter is never read as a symbol
C23_StrayCloserIsReaderError ==
    ParsedKind("stray") => ~parsed.ok

\* C24: parse of a text that ends before a form is complete (an open
\* collection, or a quote or tag with no form after it) fails with a reader
\* error, and never makes the form complete with nil
C24_TruncatedIsReaderError ==
    ParsedKind("truncated") => ~parsed.ok

\* C25: parse of a text with a quote that opens a string which is never closed
\* fails with an error located at that quote, and yields no value
C25_UnterminatedStringIsLexError ==
    ParsedKind("unterminated_string") => (~parsed.ok /\ parsed.loc = src.loc)

\* C26: parse of a text with an integer literal outside the signed 32-bit
\* range fails with an error located at the start of the literal, and yields
\* no integer and no value of another type
C26_IntegerOverflowIsLexError ==
    ParsedKind("overflow") => (~parsed.ok /\ parsed.loc = src.loc)

\* the position of the last key among the items of a map literal that equals
\* the key at position i
LastOf(items, i) ==
    CHOOSE j \in {j \in 1..Len(items) : j % 2 = 1 /\ operator_eq(items[j], items[i])} :
        \A h \in 1..Len(items) : (h % 2 = 1 /\ operator_eq(items[h], items[i])) => h <= j

RECURSIVE KeepsLast(_, _)
\* whether the value is what the form reads as when every map binds each key
\* to the value written after the key's last occurrence
KeepsLast(form, value) ==
    IF form.type = "map"
    THEN /\ value.type = "map"
         /\ \A i \in 1..Len(form.xs) :
                i % 2 = 1 =>
                    \E h \in 1..Len(value.xs) :
                        /\ h % 2 = 1
                        /\ operator_eq(value.xs[h], form.xs[i])
                        /\ value.xs[h + 1] = form.xs[LastOf(form.xs, i) + 1]
    ELSE IF form.type = "vector"
    THEN /\ value.type = "vector"
         /\ Len(value.xs) = Len(form.xs)
         /\ \A i \in 1..Len(form.xs) : KeepsLast(form.xs[i], value.xs[i])
    ELSE value = form

\* C27: parse of a map literal in which a key occurs more than once succeeds
\* and gives a map that binds the key to the value of its last occurrence
C27_DuplicateKeyKeepsLast ==
    ParsedKind("duplicate_key") => (parsed.ok /\ KeepsLast(src.forms[1], parsed.val))

(***************************************************************************)
(*                   Claims on calls and their frames                      *)
(***************************************************************************)

\* how many do_eval are entered and not left when the event at j has happened
Depth(j) ==
    Cardinality({h \in 1..j : outcome.trace[h].ev = "do_eval"})
        - Cardinality({h \in 1..j : outcome.trace[h].ev = "return"})

\* the last event of the evaluation that the do_eval at i begins: its return,
\* or the end of the trace when it fails
Extent(i) ==
    LET ends == {j \in (i + 1)..Len(outcome.trace) :
                    outcome.trace[j].ev = "return" /\ outcome.trace[j].k = outcome.trace[i].k}
    IN IF ends = {} THEN Len(outcome.trace) ELSE MinOf(ends)

\* the invocations of the callable of the list whose do_eval is at i
Invocations(i) ==
    {j \in (i + 1)..Extent(i) :
        outcome.trace[j].ev \in {"call", "host"} /\ Depth(j) = outcome.trace[i].k}

\* the events of the kind, one level below the do_eval at i, that happen
\* after it and before `limit`
Below(i, ev, limit) ==
    {j \in (i + 1)..(limit - 1) :
        outcome.trace[j].ev = ev /\ outcome.trace[j].k = outcome.trace[i].k + 1}

\* the m-th position of a set of positions
Nth(S, m) == CHOOSE j \in S : Cardinality({h \in S : h <= j}) = m

SpecialForms ==
    {<<"q", "u", "o", "t", "e">>, <<"l", "e", "t">>, <<"d", "e", "f">>, <<"f", "n">>,
     <<"d", "e", "f", "n">>, <<"i", "f">>, <<"c", "o", "n", "d">>, <<"d", "o">>}

\* whether the value is a list that is evaluated as a call
IsCall(v) ==
    /\ v.type = "list"
    /\ v.xs # <<>>
    /\ ~(v.xs[1].type = "symbol" /\ v.xs[1].s \in SpecialForms)

\* what the evaluation of the call whose do_eval is at i has done
CallInOrder(i) ==
    LET e == outcome.trace[i]
        invs == Invocations(i)
        limit == IF invs = {} THEN Extent(i) + 1 ELSE MinOf(invs)
        kids == Below(i, "do_eval", limit)
        rets == Below(i, "return", limit)
        n == Len(e.f.xs)
        callable == rets # {} /\ outcome.trace[Nth(rets, 1)].v.type = "callable"
    IN /\ Cardinality(kids) <= n
       /\ \A j \in kids :
              /\ outcome.trace[j].f = e.f.xs[Cardinality({h \in kids : h <= j})]
              /\ outcome.trace[j].at = e.at
       /\ Cardinality(invs) <= 1
       /\ invs # {} <=> (Cardinality(rets) = n /\ callable)
       /\ invs # {} =>
              /\ Cardinality(kids) = n
              /\ outcome.trace[MinOf(invs)].at = outcome.trace[Nth(rets, 1)].v.n
              /\ outcome.trace[MinOf(invs)].f =
                     list_t([m \in 1..(n - 1) |-> outcome.trace[Nth(rets, m + 1)].v])
       /\ (rets # {} /\ ~callable) => Cardinality(kids) = 1
       /\ invs = {} => ~outcome.ok

\* C28: a list (h a1 ... an) whose head is no special form evaluates h first,
\* which must give a callable, then a1 to an once each from left to right in
\* the scope of the list, and then invokes the callable once with those values
\* in that order; when h gives no callable or an argument fails, nothing is
\* invoked
C28_ArgumentsThenOneInvocation ==
    \A i \in Events("do_eval") : IsCall(outcome.trace[i].f) => CallInOrder(i)

\* a call with two arguments that are calls themselves has given its value
C28_Witness ==
    /\ evals > 0
    /\ outcome.ok
    /\ IsCall(given)
    /\ Len(given.xs) = 3
    /\ IsCall(given.xs[2])
    /\ IsCall(given.xs[3])
    /\ Invocations(1) # {}

\* the last event of the invocation whose call event is at i: the return of
\* the list that makes the call, or the end of the trace when it fails
CallEnd(i) ==
    LET ends == {j \in (i + 1)..Len(outcome.trace) :
                    outcome.trace[j].ev = "return" /\ outcome.trace[j].k = Depth(i)}
    IN IF ends = {} THEN Len(outcome.trace) ELSE MinOf(ends)

\* the symbols the evaluation has inserted into the stack_t k
InsertedAt(k) ==
    {outcome.trace[j].f.s : j \in {j \in Events("insert") : outcome.trace[j].at = k}}

\* C29: every invocation of a function has a frame of its own: a new one, empty
\* at first, chained to the captured scope; whatever the invocation binds or
\* defines goes into that frame or into frames made later, never into the
\* captured scope, the caller's scope or the frame of another invocation
C29_InvocationHasFreshFrame ==
    \A i \in Events("call") :
        LET e == outcome.trace[i]
        IN /\ frames[e.k].outer = fns[e.at].stack
           /\ \A j \in 1..(i - 1) : outcome.trace[j].ev \in {"call", "let"} => outcome.trace[j].k # e.k
           /\ DOMAIN frames[e.k].frame = InsertedAt(e.k)
           /\ \A j \in (i + 1)..CallEnd(i) :
                  outcome.trace[j].ev = "insert" => outcome.trace[j].at >= e.k

\* a function whose body defines y has been called, and y is unbound for the
\* caller afterwards
C29_Witness ==
    /\ evals > 0
    /\ ~outcome.ok
    /\ outcome.what[Len(outcome.what)] = Msg("Unrecognized symbol", <<"y">>, 0)
    /\ \E i \in Events("call") : <<"y">> \in InsertedAt(outcome.trace[i].k)

\* whether the stack_t k binds the symbol when the event at i of the trace
\* happens: it bound it before the evaluation (in `old`), or an insert of the
\* evaluation came before i
BoundAt(trace, old, k, symbol, i) ==
    \/ k <= Len(old) /\ symbol \in DOMAIN old[k].frame
    \/ \E j \in 1..(i - 1) :
           trace[j].ev = "insert" /\ trace[j].at = k /\ trace[j].f = symbol_t(symbol)

\* the value bound there: the one of the first insert
ValueAt(trace, old, k, symbol, i) ==
    IF k <= Len(old) /\ symbol \in DOMAIN old[k].frame THEN old[k].frame[symbol]
    ELSE trace[MinOf({j \in 1..(i - 1) : /\ trace[j].ev = "insert"
                                         /\ trace[j].at = k
                                         /\ trace[j].f = symbol_t(symbol)})].v

\* the lookup at i finds what the chain of its scope binds at that moment
SeesCurrent(trace, old, new, i) ==
    LET e == trace[i]
        chain == ScopeChain(new, e.at)
        bound == {m \in 1..Len(chain) : BoundAt(trace, old, chain[m], e.f.s, i)}
    IN IF bound = {} THEN e.ev = "unbound"
       ELSE /\ e.ev = "found"
            /\ e.k = chain[MinOf(bound)]
            /\ e.v = ValueAt(trace, old, e.k, e.f.s, i)

\* the callable that the fn or defn form at i makes keeps the stack_t the form
\* is evaluated in, not a copy of it
KeepsScope(trace, callables, i) ==
    (/\ trace[i].f.type = "list"
     /\ trace[i].f.xs # <<>>
     /\ is_form(trace[i].f.xs[1], <<"f", "n">>) \/ is_form(trace[i].f.xs[1], <<"d", "e", "f", "n">>)
     /\ i + 1 <= Len(trace)
     /\ trace[i + 1].ev \in {"return", "insert"}
     /\ trace[i + 1].v.type = "callable") =>
        callables[trace[i + 1].v.n].stack = trace[i].at

\* C30: a function keeps the scope it was made in and consults it when it is
\* invoked: every symbol looked up, in a body as anywhere, is found as the
\* chain of scopes binds it at that moment, so also when the binding was made
\* after the function was, as the function's own name is by defn
C30_ScopeConsultedAtCallTime ==
    [][evals' = evals + 1 =>
           \A i \in 1..Len(outcome'.trace) :
               /\ outcome'.trace[i].ev = "do_eval" => KeepsScope(outcome'.trace, fns', i)
               /\ outcome'.trace[i].ev = "call" =>
                      frames'[outcome'.trace[i].k].outer = fns'[outcome'.trace[i].at].stack
               /\ outcome'.trace[i].ev \in {"found", "unbound"} =>
                      SeesCurrent(outcome'.trace, frames, frames', i)]_vars

=========================================================================
